---- MODULE Spec2Model ----
(***************************************************************************)
(* Model of the nvidia-gpu-exporter collector package: the scrape          *)
(* orchestrator (NvidiaGPUCollector.Collect / execute) and the stateful    *)
(* GPU process collector (gpuProcessCollector.Update with its cross-cycle  *)
(* cpuSamples map and systemSample).                                       *)
(*                                                                         *)
(* Spec        : cycles of gpuProcessCollector.Update run one at a time.   *)
(* SpecCollect : one Collect at a time, one goroutine per collector.       *)
(* SpecRace    : two scrapes inside gpuProcessCollector.Update at once,    *)
(*               one step per access to the shared fields.                 *)
(*                                                                         *)
(* CPU seconds are naturals; a CPU percentage is the exact quotient, kept  *)
(* as a reduced fraction <<numerator, denominator>>.                       *)
(***************************************************************************)
EXTENDS Integers, Sequences, FiniteSets, TLC

\* ------------------------------------------------------------------ bounds
\* cumulative CPU seconds (process and system) are 0..MaxSeconds
MaxSeconds == 2
\* runtime.NumCPU()
NumCPU == 2

\* process ids (0 is the driver's "no process" entry)
Pids == {1, 2}
Seconds == 0..MaxSeconds
\* device indices the driver can report
GPUs == {0, 1}

VARIABLES
    cpuSamples,    \* gpuProcessCollector.cpuSamples: pid -> cpuSeconds
    systemSample,  \* gpuProcessCollector.systemSample
    last,          \* Spec: what the latest Update cycle read, computed and emitted
    quietGap,      \* Spec: a zero-process cycle happened and no process was enumerated since
    collect,       \* SpecCollect: the Collect in progress, its goroutines and what they sent
    race,          \* SpecRace: two Updates in progress on the one collector instance
    labels,        \* SpecLabels: the label last computed and what it was computed from
    metrics,       \* SpecMetrics: the driver's outstanding handles and the latest telemetry scrape
    registry,      \* SpecConstruct: initiatedCollectors and the orchestrators constructed
    asked,         \* SpecAsked: what the driver and the host answered per pid in the latest cycle
    usage,         \* SpecUsage: the latest cycle of the collector that reports GPU memory only
    aligned,       \* SpecBaseline: the pids whose sample was stored in the cycle that stored systemSample
    channel        \* SpecOrder: the metrics received on ch in the Collect in progress, in order

\* the variables the process collector and the orchestrator leave alone
others == <<labels, metrics, registry, asked, usage, aligned, channel>>

\* the variables of Spec, SpecCollect and SpecRace
coreVars == <<cpuSamples, systemSample, last, quietGap, collect, race>>

\* ----------------------------------------------------------------- helpers
RECURSIVE GCD(_, _)
GCD(a, b) == IF b = 0 THEN a ELSE GCD(b, a % b)

\* the exact quotient n/d (d > 0) as a reduced fraction
Frac(n, d) ==
    LET a == IF n < 0 THEN -n ELSE n
        g == GCD(a, d)
    IN  IF n = 0 THEN <<0, 1>> ELSE <<n \div g, d \div g>>

Zero == <<0, 1>>

FracNeg(f) == f[1] < 0

Min(S) == CHOOSE x \in S : \A y \in S : x <= y

\* sort.Slice(result, less): the ascending sequence of a set of numbers
RECURSIVE SortedSeq(_)
SortedSeq(S) ==
    IF S = {} THEN <<>> ELSE <<Min(S)>> \o SortedSeq(S \ {Min(S)})

Range(s) == {s[i] : i \in 1..Len(s)}

EmptyMap == [p \in {} |-> 0]

\* m with key k set to v (Go: m[k] = v)
MapPut(m, k, v) == [p \in (DOMAIN m) \cup {k} |-> IF p = k THEN v ELSE m[p]]

\* ------------------------------------------------- NVML process enumeration
\* nvml.Return values the enumeration distinguishes
NvmlReturns ==
    {"SUCCESS", "ERROR_UNINITIALIZED", "ERROR_LIBRARY_NOT_FOUND",
     "ERROR_DRIVER_NOT_LOADED", "ERROR_NOT_SUPPORTED", "ERROR_NO_PERMISSION",
     "ERROR_NOT_FOUND", "ERROR_UNKNOWN", "ERROR_GPU_IS_LOST"}

\* wrapNVMLAvailabilityError: "unavailable" wraps errGPUProcessInfoUnavailable
wrapNVMLAvailabilityError(ret) ==
    IF ret \in {"ERROR_UNINITIALIZED", "ERROR_LIBRARY_NOT_FOUND",
                "ERROR_DRIVER_NOT_LOADED", "ERROR_NOT_SUPPORTED",
                "ERROR_NO_PERMISSION", "ERROR_UNKNOWN"}
    THEN "unavailable"
    ELSE "error"

\* addNVMLProcessInfo(pidSet, getter, ...): got = [ret, procs] is what the
\* getter returned; the result is the error ("nil" for none), the pid set and
\* the return code that was only logged
addNVMLProcessInfo(pidSet, got) ==
    IF got.ret = "SUCCESS"
    THEN [err |-> "nil",
          pidSet |-> pidSet \cup {got.procs[i] : i \in {j \in 1..Len(got.procs) : got.procs[j] # 0}},
          logged |-> {}]
    ELSE IF got.ret \in {"ERROR_NOT_SUPPORTED", "ERROR_NO_PERMISSION", "ERROR_NOT_FOUND"}
    THEN [err |-> "nil", pidSet |-> pidSet, logged |-> {got.ret}]
    ELSE [err |-> "error", pidSet |-> pidSet, logged |-> {}]

\* the device loop of nvmlProcessPIDs over the devices still to visit
RECURSIVE nvmlDeviceLoop(_, _, _)
nvmlDeviceLoop(pidSet, logged, devs) ==
    IF devs = <<>> THEN [err |-> "nil", pidSet |-> pidSet, logged |-> logged]
    ELSE LET dev == Head(devs) IN
         IF dev.handle # "SUCCESS"
         THEN [err |-> "error", pidSet |-> pidSet, logged |-> logged]
         ELSE LET c == addNVMLProcessInfo(pidSet, dev.compute) IN
              IF c.err # "nil"
              THEN [err |-> c.err, pidSet |-> pidSet, logged |-> logged]
              ELSE LET g == addNVMLProcessInfo(c.pidSet, dev.graphics) IN
                   IF g.err # "nil"
                   THEN [err |-> g.err, pidSet |-> pidSet, logged |-> logged \cup c.logged]
                   ELSE nvmlDeviceLoop(g.pidSet, logged \cup c.logged \cup g.logged, Tail(devs))

\* a nvmlProcessPIDs that keeps one entry per device a process is listed on
nvmlProcessPIDs_perDevice(drv) ==
    IF drv.init # "SUCCESS"
    THEN [err |-> wrapNVMLAvailabilityError(drv.init), pids |-> <<>>, logged |-> {}, ret |-> drv.init]
    ELSE IF drv.count # "SUCCESS"
    THEN [err |-> wrapNVMLAvailabilityError(drv.count), pids |-> <<>>, logged |-> {}, ret |-> drv.count]
    ELSE LET r == nvmlDeviceLoop({}, {}, drv.devices)
             on(i) == nvmlDeviceLoop({}, {}, <<drv.devices[i]>>).pidSet
             both == IF Len(drv.devices) = 2 THEN on(1) \cap on(2) ELSE {}
         IN
         IF r.err # "nil"
         THEN [err |-> r.err, pids |-> <<>>, logged |-> r.logged, ret |-> "SUCCESS"]
         ELSE [err |-> "nil", pids |-> SortedSeq(r.pidSet) \o SortedSeq(both),
               logged |-> r.logged, ret |-> "SUCCESS"]

\* nvmlProcessPIDs: drv = [init, count, devices] is what the driver answers.
\* err is "nil", "unavailable" (errors.Is errGPUProcessInfoUnavailable) or
\* "error"; pids is the sorted result; logged the codes only logged per device
nvmlProcessPIDs(drv) ==
    IF drv.init # "SUCCESS"
    THEN [err |-> wrapNVMLAvailabilityError(drv.init), pids |-> <<>>, logged |-> {}, ret |-> drv.init]
    ELSE IF drv.count # "SUCCESS"
    THEN [err |-> wrapNVMLAvailabilityError(drv.count), pids |-> <<>>, logged |-> {}, ret |-> drv.count]
    ELSE LET r == nvmlDeviceLoop({}, {}, drv.devices) IN
         IF r.err # "nil"
         THEN [err |-> r.err, pids |-> <<>>, logged |-> r.logged, ret |-> "SUCCESS"]
         ELSE [err |-> "nil", pids |-> SortedSeq(r.pidSet), logged |-> r.logged, ret |-> "SUCCESS"]

\* what a process-list getter can return: a list of pids (0 is possible) or a code
ProcLists == {SortedSeq(S) : S \in SUBSET ({0} \cup Pids)}
GetterResults ==
    {[ret |-> "SUCCESS", procs |-> l] : l \in ProcLists}
    \cup {[ret |-> r, procs |-> <<>>] :
            r \in {"ERROR_NOT_SUPPORTED", "ERROR_NO_PERMISSION", "ERROR_NOT_FOUND", "ERROR_UNKNOWN"}}
DeviceResponses ==
    {[handle |-> "ERROR_GPU_IS_LOST", compute |-> [ret |-> "SUCCESS", procs |-> <<>>],
      graphics |-> [ret |-> "SUCCESS", procs |-> <<>>]]}
    \cup [handle : {"SUCCESS"}, compute : GetterResults, graphics : GetterResults]
DeviceSeqs ==
    {<<>>} \cup {<<d>> : d \in DeviceResponses}
    \cup {<<d, e>> : d \in DeviceResponses, e \in DeviceResponses}
DriverResponses ==
    {[init |-> r, count |-> "SUCCESS", devices |-> <<>>] : r \in NvmlReturns \ {"SUCCESS"}}
    \cup {[init |-> "SUCCESS", count |-> r, devices |-> <<>>] : r \in NvmlReturns \ {"SUCCESS"}}
    \cup {[init |-> "SUCCESS", count |-> "SUCCESS", devices |-> ds] : ds \in DeviceSeqs}

\* every result nvmlProcessPIDs can hand to Update
EnumResults == {nvmlProcessPIDs(drv) : drv \in DriverResponses}

\* ------------------------------------------------ gpuProcessCollector state
\* systemCPUSample{}: the zero value
NoSystemSample == [totalSeconds |-> 0, initialized |-> FALSE]

\* dcgm.IsInt64Blank: the driver's blank sentinel for an int64 field, scaled
\* down to sit above every byte count the driver answers here
Int64Blank == 1000
IsInt64Blank(value) == value >= Int64Blank

\* a sanitizeBytes that lets the blank sentinel through
sanitizeBytes_keepBlank(value) == IF value <= 0 THEN 0 ELSE value

\* sanitizeBytes
sanitizeBytes(value) == IF value <= 0 \/ IsInt64Blank(value) THEN 0 ELSE value

\* an updateSystemSample that keeps the old sample when there is no progress
updateSystemSample_keepOnNoDelta(sys, total) ==
    IF ~sys.initialized
    THEN [sys |-> [totalSeconds |-> total, initialized |-> TRUE], delta |-> 0, ok |-> FALSE]
    ELSE LET delta == IF total >= sys.totalSeconds THEN total - sys.totalSeconds ELSE 0
         IN  IF delta <= 0
             THEN [sys |-> sys, delta |-> 0, ok |-> FALSE]
             ELSE [sys |-> [sys EXCEPT !.totalSeconds = total], delta |-> delta, ok |-> TRUE]

\* updateSystemSample(total) on systemSample sys: the new systemSample and the
\* two values returned
updateSystemSample(sys, total) ==
    IF ~sys.initialized
    THEN [sys |-> [totalSeconds |-> total, initialized |-> TRUE], delta |-> 0, ok |-> FALSE]
    ELSE LET delta == IF total >= sys.totalSeconds THEN total - sys.totalSeconds ELSE 0
             next == [sys EXCEPT !.totalSeconds = total]
         IN  IF delta <= 0
             THEN [sys |-> next, delta |-> 0, ok |-> FALSE]
             ELSE [sys |-> next, delta |-> delta, ok |-> TRUE]

\* a processCPUPercent that leaves the number of cores out
processCPUPercent_oneCore(samples, pid, procSeconds, systemDelta, hasSystemDelta, numCPU) ==
    LET ok == pid \in DOMAIN samples
        stored == MapPut(samples, pid, procSeconds)
    IN  IF ~ok \/ ~hasSystemDelta \/ systemDelta <= 0
        THEN [samples |-> stored, percent |-> Zero]
        ELSE IF procSeconds <= samples[pid]
        THEN [samples |-> stored, percent |-> Zero]
        ELSE [samples |-> stored,
              percent |-> Frac((procSeconds - samples[pid]) * 100, systemDelta)]

\* a processCPUPercent that differences a first sighting against zero
processCPUPercent_zeroBaseline(samples, pid, procSeconds, systemDelta, hasSystemDelta, numCPU) ==
    LET prev == IF pid \in DOMAIN samples THEN samples[pid] ELSE 0
        stored == MapPut(samples, pid, procSeconds)
    IN  IF ~hasSystemDelta \/ systemDelta <= 0
        THEN [samples |-> stored, percent |-> Zero]
        ELSE IF procSeconds <= prev
        THEN [samples |-> stored, percent |-> Zero]
        ELSE [samples |-> stored,
              percent |-> Frac((procSeconds - prev) * numCPU * 100, systemDelta)]

\* a processCPUPercent that stores the sample only with a percentage computed
processCPUPercent_storeOnSuccess(samples, pid, procSeconds, systemDelta, hasSystemDelta, numCPU) ==
    LET ok == pid \in DOMAIN samples
    IN  IF ~ok \/ ~hasSystemDelta \/ systemDelta <= 0
        THEN [samples |-> IF ok THEN samples ELSE MapPut(samples, pid, procSeconds),
              percent |-> Zero]
        ELSE IF procSeconds <= samples[pid]
        THEN [samples |-> samples, percent |-> Zero]
        ELSE [samples |-> MapPut(samples, pid, procSeconds),
              percent |-> Frac((procSeconds - samples[pid]) * numCPU * 100, systemDelta)]

\* processCPUPercent on the map samples: the new map and the value returned
processCPUPercent(samples, pid, procSeconds, systemDelta, hasSystemDelta, numCPU) ==
    LET ok == pid \in DOMAIN samples
        stored == MapPut(samples, pid, procSeconds)
    IN  IF ~ok \/ ~hasSystemDelta \/ systemDelta <= 0
        THEN [samples |-> stored, percent |-> Zero]
        ELSE IF procSeconds <= samples[pid]
        THEN [samples |-> stored, percent |-> Zero]
        ELSE [samples |-> stored,
              percent |-> Frac((procSeconds - samples[pid]) * numCPU * 100, systemDelta)]

\* pruneCPUSamples(active): active is the pid slice
pruneCPUSamples(samples, active) ==
    IF DOMAIN samples = {} THEN samples
    ELSE LET activeSet == Range(active)
         IN  [p \in {q \in DOMAIN samples : q \in activeSet} |-> samples[p]]

\* a resetCPUSamples that forgets the system sample but keeps the map
resetCPUSamples_keepSamples(samples) ==
    [cpuSamples |-> samples, systemSample |-> NoSystemSample]

\* resetCPUSamples: both fields afterwards
resetCPUSamples(samples) ==
    [cpuSamples |-> [p \in {q \in DOMAIN samples : FALSE} |-> samples[p]],
     systemSample |-> NoSystemSample]

\* the metrics sent for one dcgm process info: gpu_process_gpu_memory,
\* gpu_process_cpu and gpu_process_memory with the same labels
ProcessSeries(info, cpuPercent, memPercent) ==
    [desc |-> "gpu_process", gpu |-> info.GPU, pid |-> info.PID,
     gpuMem |-> sanitizeBytes(info.GlobalUsed),
     cpu |-> cpuPercent, mem |-> memPercent]

RECURSIVE EmitInfos(_, _, _)
EmitInfos(infos, cpuPercent, memPercent) ==
    IF infos = <<>> THEN <<>>
    ELSE <<ProcessSeries(Head(infos), cpuPercent, memPercent)>>
         \o EmitInfos(Tail(infos), cpuPercent, memPercent)

\* a loop over the pids that gives up at the first pid collectProcessInfo
\* fails for
RECURSIVE pidLoop_stopOnHostError(_, _, _, _, _, _, _)
pidLoop_stopOnHostError(samples, sent, read, pids, proc, systemDelta, hasSystemDelta) ==
    IF pids = <<>> THEN [samples |-> samples, sent |-> sent, read |-> read]
    ELSE LET pid == Head(pids)
             in == proc[pid]
             infos == [i \in 1..Len(in.infos) |->
                          [GPU |-> in.infos[i].GPU, PID |-> pid,
                           GlobalUsed |-> in.infos[i].GlobalUsed]]
             rest == Tail(pids)
         IN  IF in.dcgm # "ok" \/ Len(infos) = 0
             THEN pidLoop_stopOnHostError(samples, sent, read, rest, proc,
                                          systemDelta, hasSystemDelta)
             ELSE IF in.host # "ok"
             THEN [samples |-> samples, sent |-> sent, read |-> read]
             ELSE LET r == processCPUPercent(samples, pid, in.cpuSeconds,
                                             systemDelta, hasSystemDelta, NumCPU)
                      cpuPercent == IF FracNeg(r.percent) THEN Zero ELSE r.percent
                      memPercent == IF in.memPercent < 0 THEN 0 ELSE in.memPercent
                  IN  pidLoop_stopOnHostError(r.samples,
                              sent \o EmitInfos(infos, cpuPercent, memPercent),
                              MapPut(read, pid, in.cpuSeconds),
                              rest, proc, systemDelta, hasSystemDelta)

\* the loop "for _, pid := range pids" of Update. proc[pid] is what dcgm and
\* the host answer for pid: dcgm ("ok", "ignored": an error
\* shouldIgnoreProcessError accepts, "failed": another error), infos, host
\* ("ok" or "error" from collectProcessInfo), memPercent, cpuSeconds.
\* Result: the map, the series sent in order, the cpu seconds read per pid.
RECURSIVE pidLoop(_, _, _, _, _, _, _)
pidLoop(samples, sent, read, pids, proc, systemDelta, hasSystemDelta) ==
    IF pids = <<>> THEN [samples |-> samples, sent |-> sent, read |-> read]
    ELSE LET pid == Head(pids)
             in == proc[pid]
             infos == [i \in 1..Len(in.infos) |->
                          [GPU |-> in.infos[i].GPU, PID |-> pid,
                           GlobalUsed |-> in.infos[i].GlobalUsed]]
             rest == Tail(pids)
         IN  IF in.dcgm # "ok"
             THEN pidLoop(samples, sent, read, rest, proc, systemDelta, hasSystemDelta)
             ELSE IF Len(infos) = 0
             THEN pidLoop(samples, sent, read, rest, proc, systemDelta, hasSystemDelta)
             ELSE IF in.host # "ok"
             THEN pidLoop(samples, sent, read, rest, proc, systemDelta, hasSystemDelta)
             ELSE LET r == processCPUPercent(samples, pid, in.cpuSeconds,
                                             systemDelta, hasSystemDelta, NumCPU)
                      cpuPercent == IF FracNeg(r.percent) THEN Zero ELSE r.percent
                      memPercent == IF in.memPercent < 0 THEN 0 ELSE in.memPercent
                  IN  pidLoop(r.samples,
                              sent \o EmitInfos(infos, cpuPercent, memPercent),
                              MapPut(read, pid, in.cpuSeconds),
                              rest, proc, systemDelta, hasSystemDelta)

\* an Update that drops the samples when the enumeration is unavailable
Update_unavailableResets(c, in) ==
    LET none == [cpuSamples |-> c.cpuSamples, systemSample |-> c.systemSample,
                 err |-> "nil", path |-> "none", sent |-> <<>>, pids |-> <<>>,
                 total |-> 0, systemDelta |-> 0, hasSystemDelta |-> FALSE,
                 read |-> EmptyMap]
    IN
    IF in.enum.err = "unavailable"
    THEN LET r == resetCPUSamples(c.cpuSamples)
         IN  [none EXCEPT !.path = "unavailable", !.cpuSamples = r.cpuSamples,
                          !.systemSample = r.systemSample]
    ELSE IF in.enum.err # "nil"
    THEN [none EXCEPT !.path = "enum_error", !.err = "error"]
    ELSE IF Len(in.enum.pids) = 0
    THEN LET r == resetCPUSamples(c.cpuSamples)
         IN  [none EXCEPT !.path = "reset", !.cpuSamples = r.cpuSamples,
                          !.systemSample = r.systemSample]
    ELSE IF ~in.cpuTimes.ok
    THEN [none EXCEPT !.path = "abort_cputimes", !.err = "error", !.pids = in.enum.pids]
    ELSE LET u == updateSystemSample(c.systemSample, in.cpuTimes.total)
             upd == [none EXCEPT !.systemSample = u.sys, !.pids = in.enum.pids,
                                 !.total = in.cpuTimes.total, !.systemDelta = u.delta,
                                 !.hasSystemDelta = u.ok]
         IN  IF ~in.dcgmInit
             THEN [upd EXCEPT !.path = "abort_init", !.err = "error"]
             ELSE IF ~in.watch
             THEN [upd EXCEPT !.path = "abort_watch", !.err = "error"]
             ELSE LET l == pidLoop(c.cpuSamples, <<>>, EmptyMap, in.enum.pids,
                                   in.proc, u.delta, u.ok)
                  IN  [upd EXCEPT !.path = "done",
                                  !.cpuSamples = pruneCPUSamples(l.samples, in.enum.pids),
                                  !.sent = l.sent, !.read = l.read]

\* an Update that takes every enumeration error for "unavailable"
Update_enumErrorIgnored(c, in) ==
    LET none == [cpuSamples |-> c.cpuSamples, systemSample |-> c.systemSample,
                 err |-> "nil", path |-> "none", sent |-> <<>>, pids |-> <<>>,
                 total |-> 0, systemDelta |-> 0, hasSystemDelta |-> FALSE,
                 read |-> EmptyMap]
    IN
    IF in.enum.err # "nil"
    THEN [none EXCEPT !.path = "unavailable"]
    ELSE IF Len(in.enum.pids) = 0
    THEN LET r == resetCPUSamples(c.cpuSamples)
         IN  [none EXCEPT !.path = "reset", !.cpuSamples = r.cpuSamples,
                          !.systemSample = r.systemSample]
    ELSE IF ~in.cpuTimes.ok
    THEN [none EXCEPT !.path = "abort_cputimes", !.err = "error", !.pids = in.enum.pids]
    ELSE LET u == updateSystemSample(c.systemSample, in.cpuTimes.total)
             upd == [none EXCEPT !.systemSample = u.sys, !.pids = in.enum.pids,
                                 !.total = in.cpuTimes.total, !.systemDelta = u.delta,
                                 !.hasSystemDelta = u.ok]
         IN  IF ~in.dcgmInit
             THEN [upd EXCEPT !.path = "abort_init", !.err = "error"]
             ELSE IF ~in.watch
             THEN [upd EXCEPT !.path = "abort_watch", !.err = "error"]
             ELSE LET l == pidLoop(c.cpuSamples, <<>>, EmptyMap, in.enum.pids,
                                   in.proc, u.delta, u.ok)
                  IN  [upd EXCEPT !.path = "done",
                                  !.cpuSamples = pruneCPUSamples(l.samples, in.enum.pids),
                                  !.sent = l.sent, !.read = l.read]

\* gpuProcessCollector.Update on the collector state c = [cpuSamples,
\* systemSample] with the answers in = [enum, cpuTimes, dcgmInit, watch, proc]
\* of the driver and the host. Result: the state afterwards, the error
\* returned ("nil" or "error"), the series sent, and what the cycle did.
Update(c, in) ==
    LET none == [cpuSamples |-> c.cpuSamples, systemSample |-> c.systemSample,
                 err |-> "nil", path |-> "none", sent |-> <<>>, pids |-> <<>>,
                 total |-> 0, systemDelta |-> 0, hasSystemDelta |-> FALSE,
                 read |-> EmptyMap]
    IN
    IF in.enum.err = "unavailable"
    THEN [none EXCEPT !.path = "unavailable"]
    ELSE IF in.enum.err # "nil"
    THEN [none EXCEPT !.path = "enum_error", !.err = "error"]
    ELSE IF Len(in.enum.pids) = 0
    THEN LET r == resetCPUSamples(c.cpuSamples)
         IN  [none EXCEPT !.path = "reset", !.cpuSamples = r.cpuSamples,
                          !.systemSample = r.systemSample]
    ELSE IF ~in.cpuTimes.ok
    THEN [none EXCEPT !.path = "abort_cputimes", !.err = "error", !.pids = in.enum.pids]
    ELSE LET u == updateSystemSample(c.systemSample, in.cpuTimes.total)
             upd == [none EXCEPT !.systemSample = u.sys, !.pids = in.enum.pids,
                                 !.total = in.cpuTimes.total, !.systemDelta = u.delta,
                                 !.hasSystemDelta = u.ok]
         IN  IF ~in.dcgmInit
             THEN [upd EXCEPT !.path = "abort_init", !.err = "error"]
             ELSE IF ~in.watch
             THEN [upd EXCEPT !.path = "abort_watch", !.err = "error"]
             ELSE LET l == pidLoop(c.cpuSamples, <<>>, EmptyMap, in.enum.pids,
                                   in.proc, u.delta, u.ok)
                  IN  [upd EXCEPT !.path = "done",
                                  !.cpuSamples = pruneCPUSamples(l.samples, in.enum.pids),
                                  !.sent = l.sent, !.read = l.read]

\* ------------------------------------------- answers of the driver and host
\* raw host memory percentages and raw device memory readings
MemPercents == {1}
GlobalUsedValues == {1}

\* dcgm.GetProcessInfo results: one entry per device the process runs on
\* (every answered process runs on both devices)
InfoSeqs ==
    {<<[GPU |-> 0, GlobalUsed |-> m], [GPU |-> 1, GlobalUsed |-> n]>> :
            m \in GlobalUsedValues, n \in GlobalUsedValues}

\* the answers for a pid that make the loop skip it
SkipAnswers ==
    {[dcgm |-> d, infos |-> <<>>, host |-> "ok", memPercent |-> 0, cpuSeconds |-> 0] :
        d \in {"ignored", "failed", "ok"}}
    \cup {[dcgm |-> "ok", infos |-> <<[GPU |-> 0, GlobalUsed |-> 1]>>, host |-> "error",
           memPercent |-> 0, cpuSeconds |-> 0]}
ProcAnswers ==
    SkipAnswers
    \cup [dcgm : {"ok"}, infos : InfoSeqs, host : {"ok"},
          memPercent : MemPercents, cpuSeconds : Seconds]

\* readTotalCPUSeconds
CPUTimes == {[ok |-> FALSE, total |-> 0]} \cup [ok : {TRUE}, total : Seconds]

\* the enumeration results Update tells apart
EnumOutcomes == {[err |-> r.err, pids |-> r.pids] : r \in EnumResults}

NoAnswers == [ok |-> TRUE, total |-> 0]

\* SpecAsked: the raw readings of one process: info.Memory.GlobalUsed of dcgm
\* (negative, zero, a byte count, the blank sentinel and above) and the
\* memory percentage of the host (negative, zero, positive)
RawReadings ==
    {[GlobalUsed |-> -1, memPercent |-> -1], [GlobalUsed |-> 0, memPercent |-> 0],
     [GlobalUsed |-> 1, memPercent |-> 1], [GlobalUsed |-> Int64Blank, memPercent |-> 1],
     [GlobalUsed |-> Int64Blank + 1, memPercent |-> -1]}

\* SpecAsked: a process answered on one device with a raw reading
RawAnswers ==
    {[dcgm |-> "ok", infos |-> <<[GPU |-> 0, GlobalUsed |-> raw.GlobalUsed]>>,
      host |-> "ok", memPercent |-> raw.memPercent, cpuSeconds |-> s] :
        raw \in RawReadings, s \in Seconds}

\* SpecAsked: per pid, dcgm answers the process on one device and
\* collectProcessInfo fails or succeeds
HostAnswers ==
    {[dcgm |-> "ok", infos |-> <<[GPU |-> 0, GlobalUsed |-> 1]>>, host |-> "error",
      memPercent |-> 0, cpuSeconds |-> 0]}
    \cup {[dcgm |-> "ok", infos |-> <<[GPU |-> 0, GlobalUsed |-> 1]>>, host |-> "ok",
           memPercent |-> 1, cpuSeconds |-> s] : s \in Seconds}

\* ------------------------------------------------------ Spec: Update cycles
\* ------------------------------------------------------------ label values
\* A Go string is its Unicode code points in order, followed by tail bytes
\* of a code point that was cut (0 for a string that ends on a code point
\* boundary).
maxCommandLabelLength == 200

\* code points of one, two and three bytes in UTF-8: 'a', U+00E9, U+4E2D
SampleRunes == {97, 233, 20013}

\* the number of bytes of the UTF-8 encoding of a code point
IsWidth1(r) == r < 128
IsWidth2(r) == r >= 128 /\ r < 2048
IsWidth3(r) == r >= 2048 /\ r < 65536

GoString(chars) == [chars |-> chars, tail |-> 0]

\* the bytes of a sequence of code points
ByteLen(chars) ==
    Len(SelectSeq(chars, IsWidth1)) + 2 * Len(SelectSeq(chars, IsWidth2))
    + 3 * Len(SelectSeq(chars, IsWidth3))

\* len(s): bytes
goLen(s) == ByteLen(s.chars) + s.tail

\* s[:limit] for limit <= len(s): the first limit bytes
byteSlice(s, limit) ==
    LET n == Len(s.chars)
        k == CHOOSE j \in 0..n :
                /\ ByteLen(SubSeq(s.chars, 1, j)) <= limit
                /\ j < n => ByteLen(SubSeq(s.chars, 1, j + 1)) > limit
    IN  [chars |-> SubSeq(s.chars, 1, k),
         tail |-> IF k < n THEN limit - ByteLen(SubSeq(s.chars, 1, k)) ELSE 0]

\* []rune(s): every byte that is not part of a whole code point decodes to
\* U+FFFD, three bytes when encoded
runes(s) == s.chars \o [i \in 1..s.tail |-> 65533]

\* string(runes)
stringOfRunes(r) == [chars |-> r, tail |-> 0]

\* collectProcessInfo: the command label made of meta.command
commandLabel(command) ==
    LET limit == maxCommandLabelLength IN
    IF goLen(command) > limit
    THEN LET r == runes(command) IN
         IF Len(r) > limit
         THEN stringOfRunes(SubSeq(r, 1, limit))
         ELSE byteSlice(command, limit)
    ELSE command

\* command lines: a run of one code point followed by a run of another, of
\* lengths around the limit and around the limit in bytes
RunLengths == {0, 1, 67, 100, 200, 201}
TwoRuns(w1, n1, w2, n2) == [i \in 1..(n1 + n2) |-> IF i <= n1 THEN w1 ELSE w2]
Commands ==
    {GoString(TwoRuns(w1, n1, w2, n2)) :
        w1 \in SampleRunes, n1 \in RunLengths \ {0}, w2 \in SampleRunes, n2 \in RunLengths}

\* hostNameOrDefault: env is os.Getenv("NODE_NAME") ("" when unset), host is
\* what os.Hostname() returned
hostNameOrDefault(env, host) ==
    IF host.err THEN "unknown"
    ELSE IF env # "" THEN env
    ELSE host.name

NodeNames == {"", "node-a", "node-b"}
HostnameResults ==
    {[err |-> TRUE, name |-> ""]}
    \cup {[err |-> FALSE, name |-> h] : h \in {"gpu-host-1", "gpu-host-2"}}

\* unknownProcessLabel = "unknown"
unknownProcessLabel == GoString(<<117, 110, 107, 110, 111, 119, 110>>)

EmptyString == GoString(<<>>)

\* unicode.IsSpace
IsSpace(r) ==
    r \in {9, 10, 11, 12, 13, 32, 133, 160, 5760, 8232, 8233, 8239, 8287, 12288}
          \cup (8192..8202)

\* strings.TrimSpace: the white space in front is dropped, then the white
\* space at the end; bytes of a cut code point are not white space
RECURSIVE TrimLeft(_)
TrimLeft(chars) ==
    IF chars # <<>> /\ IsSpace(Head(chars)) THEN TrimLeft(Tail(chars)) ELSE chars

RECURSIVE TrimRight(_)
TrimRight(chars) ==
    IF chars # <<>> /\ IsSpace(chars[Len(chars)])
    THEN TrimRight(SubSeq(chars, 1, Len(chars) - 1))
    ELSE chars

TrimSpace(s) ==
    IF s.tail > 0 THEN [chars |-> TrimLeft(s.chars), tail |-> s.tail]
    ELSE [chars |-> TrimRight(TrimLeft(s.chars)), tail |-> 0]

\* a firstNonEmpty that returns the value as it found it
RECURSIVE firstNonEmpty_untrimmed(_)
firstNonEmpty_untrimmed(values) ==
    IF values = <<>> THEN EmptyString
    ELSE IF TrimSpace(Head(values)) # EmptyString THEN Head(values)
    ELSE firstNonEmpty_untrimmed(Tail(values))

\* firstNonEmpty
RECURSIVE firstNonEmpty(_)
firstNonEmpty(values) ==
    IF values = <<>> THEN EmptyString
    ELSE IF TrimSpace(Head(values)) # EmptyString THEN TrimSpace(Head(values))
    ELSE firstNonEmpty(Tail(values))

\* strconv.FormatInt(n, 10) for n >= 0: the decimal digits
RECURSIVE FormatInt(_)
FormatInt(n) ==
    IF n < 10 THEN <<48 + n>> ELSE FormatInt(n \div 10) \o <<48 + (n % 10)>>

\* strings.Join(args, " ")
RECURSIVE Join(_)
Join(args) ==
    IF args = <<>> THEN <<>>
    ELSE IF Len(args) = 1 THEN args[1].chars
    ELSE args[1].chars \o <<32>> \o Join(Tail(args))

\* collectProcessInfo, the labels: host is what the process reader answers
\* (name, uids, cmdline, args: each an error or a value), fallbackName the
\* name the GPU driver reported
collectProcessMetadata(host, fallbackName) ==
    LET name == IF host.name.err THEN EmptyString ELSE host.name.value
        uid == IF ~host.uids.err /\ Len(host.uids.value) > 0
               THEN GoString(FormatInt(host.uids.value[1]))
               ELSE unknownProcessLabel
        cmdline == IF host.cmdline.err \/ TrimSpace(host.cmdline.value) = EmptyString
                   THEN IF ~host.args.err /\ Len(host.args.value) > 0
                        THEN GoString(Join(host.args.value))
                        ELSE host.cmdline.value
                   ELSE host.cmdline.value
    IN  [name |-> firstNonEmpty(<<name, fallbackName, unknownProcessLabel>>),
         uid |-> firstNonEmpty(<<uid, unknownProcessLabel>>),
         command |-> commandLabel(firstNonEmpty(<<cmdline, name, fallbackName,
                                                  unknownProcessLabel>>))]

\* what the process reader answers: proc.Name(), proc.Uids(), proc.Cmdline()
\* and proc.CmdlineSlice()
Answer(err, value) == [err |-> err, value |-> value]
Repeat(r, n) == [i \in 1..n |-> r]
ProcessNames ==
    {Answer(TRUE, EmptyString), Answer(FALSE, GoString(<<32>>)),
     Answer(FALSE, GoString(<<112, 121>>)), Answer(FALSE, GoString(<<32, 112, 121, 9>>))}
GPUNames == {EmptyString, GoString(<<32, 103, 112>>)}
ProcessUids == {Answer(TRUE, <<>>), Answer(FALSE, <<1000, 1001>>)}
ProcessCmdlines ==
    {Answer(TRUE, EmptyString), Answer(FALSE, GoString(<<32, 32>>)),
     Answer(FALSE, GoString(<<32, 112, 121, 32, 120, 10>>)),
     Answer(FALSE, GoString(Repeat(97, maxCommandLabelLength - 1) \o <<32, 98, 98>>)),
     Answer(FALSE, GoString(Repeat(233, 99) \o <<97, 32, 233>>))}
ProcessArgs ==
    {Answer(TRUE, <<>>), Answer(FALSE, <<GoString(<<112, 121>>), GoString(<<120>>)>>)}
ProcessReads ==
    [name : ProcessNames, uids : ProcessUids, cmdline : ProcessCmdlines,
     args : ProcessArgs, fallbackName : GPUNames]

NoLabels ==
    [kind |-> "none", command |-> GoString(<<>>), label |-> GoString(<<>>),
     env |-> "", hostname |-> [err |-> FALSE, name |-> ""], host |-> "",
     proc |-> [name |-> Answer(TRUE, EmptyString), uids |-> Answer(TRUE, <<>>),
               cmdline |-> Answer(TRUE, EmptyString), args |-> Answer(TRUE, <<>>),
               fallbackName |-> EmptyString],
     meta |-> [name |-> EmptyString, uid |-> EmptyString, command |-> EmptyString]]

\* ------------------------------------------- device telemetry: field query
\* gpuMetricFields
gpuMetricFields ==
    <<"FB_FREE", "FB_USED", "FB_TOTAL", "GPU_TEMP", "GPU_UTIL", "MEM_COPY_UTIL">>

\* mibToBytes
bytesInMiB == 1048576
mibToBytes(value) == value * bytesInMiB

\* a call to the driver and whether it succeeded
Call(op, ok) == [op |-> op, ok |-> ok]

\* a driver-side handle: a field group or a watch group made for a device
Handle(kind, gpuID) == [kind |-> kind, gpu |-> gpuID]

\* the loop over values at the end of collectFieldValues: the map it fills
fieldResult(values) ==
    LET okAt(f) == {i \in 1..Len(values) :
                        values[i].FieldID = f /\ values[i].Status = "OK"}
        Last(S) == CHOOSE i \in S : \A j \in S : j <= i
    IN  [f \in {values[i].FieldID : i \in {j \in 1..Len(values) : values[j].Status = "OK"}}
            |-> values[Last(okAt(f))]]

\* a collectFieldValues that returns on a failed read without its deferred
\* destroys
collectFieldValues_leakOnReadError(gpuID, q) ==
    IF ~q.create
    THEN [err |-> "error", result |-> EmptyMap, calls |-> <<Call("FieldGroupCreate", FALSE)>>]
    ELSE IF ~q.watch
    THEN [err |-> "error", result |-> EmptyMap,
          calls |-> <<Call("FieldGroupCreate", TRUE), Call("WatchFields", FALSE),
                      Call("FieldGroupDestroy", q.fieldGroupDestroy)>>]
    ELSE IF ~q.read
    THEN [err |-> "error", result |-> EmptyMap,
          calls |-> <<Call("FieldGroupCreate", TRUE), Call("WatchFields", TRUE),
                      Call("GetLatestValuesForFields", FALSE)>>]
    ELSE [err |-> "nil", result |-> fieldResult(q.values),
          calls |-> <<Call("FieldGroupCreate", TRUE), Call("WatchFields", TRUE),
                      Call("GetLatestValuesForFields", TRUE),
                      Call("DestroyGroup", q.destroyGroup),
                      Call("FieldGroupDestroy", q.fieldGroupDestroy)>>]

\* a collectFieldValues that keeps every value the driver returned
collectFieldValues_anyStatus(gpuID, q) ==
    LET all == [i \in 1..Len(q.values) |-> [q.values[i] EXCEPT !.Status = "OK"]] IN
    IF ~q.create
    THEN [err |-> "error", result |-> EmptyMap, calls |-> <<Call("FieldGroupCreate", FALSE)>>]
    ELSE IF ~q.watch
    THEN [err |-> "error", result |-> EmptyMap,
          calls |-> <<Call("FieldGroupCreate", TRUE), Call("WatchFields", FALSE),
                      Call("FieldGroupDestroy", q.fieldGroupDestroy)>>]
    ELSE [err |-> IF q.read THEN "nil" ELSE "error",
          result |-> IF q.read THEN fieldResult(all) ELSE EmptyMap,
          calls |-> <<Call("FieldGroupCreate", TRUE), Call("WatchFields", TRUE),
                      Call("GetLatestValuesForFields", q.read),
                      Call("DestroyGroup", q.destroyGroup),
                      Call("FieldGroupDestroy", q.fieldGroupDestroy)>>]

\* collectFieldValues(gpuID, gpuMetricFields): q is what the driver answers to
\* each call. The deferred destroys run last in, first out, and a destroy the
\* driver refuses is only logged.
collectFieldValues(gpuID, q) ==
    IF ~q.create
    THEN [err |-> "error", result |-> EmptyMap, calls |-> <<Call("FieldGroupCreate", FALSE)>>]
    ELSE IF ~q.watch
    THEN [err |-> "error", result |-> EmptyMap,
          calls |-> <<Call("FieldGroupCreate", TRUE), Call("WatchFields", FALSE),
                      Call("FieldGroupDestroy", q.fieldGroupDestroy)>>]
    ELSE [err |-> IF q.read THEN "nil" ELSE "error",
          result |-> IF q.read THEN fieldResult(q.values) ELSE EmptyMap,
          calls |-> <<Call("FieldGroupCreate", TRUE), Call("WatchFields", TRUE),
                      Call("GetLatestValuesForFields", q.read),
                      Call("DestroyGroup", q.destroyGroup),
                      Call("FieldGroupDestroy", q.fieldGroupDestroy)>>]

\* the handles the driver holds after the calls of one query: made by a
\* successful create, gone with a successful destroy
HandleKind(op) == IF op \in {"FieldGroupCreate", "FieldGroupDestroy"} THEN "fieldGroup" ELSE "group"
RECURSIVE handlesAfter(_, _, _)
handlesAfter(held, gpuID, calls) ==
    IF calls = <<>> THEN held
    ELSE LET c == Head(calls)
             h == Handle(HandleKind(c.op), gpuID)
         IN  handlesAfter(
                 IF c.op \in {"FieldGroupCreate", "WatchFields"} /\ c.ok THEN held \cup {h}
                 ELSE IF c.op \in {"FieldGroupDestroy", "DestroyGroup"} /\ c.ok THEN held \ {h}
                 ELSE held,
                 gpuID, Tail(calls))

\* the series Update sends for one device from the map of its field values
RECURSIVE fieldSeries(_, _, _)
fieldSeries(gpuID, fieldValues, fields) ==
    IF fields = <<>> THEN <<>>
    ELSE LET f == Head(fields) IN
         (IF f \in DOMAIN fieldValues
          THEN <<[desc |-> "gpu_metrics", field |-> f, gpu |-> gpuID,
                  value |-> IF f \in {"FB_FREE", "FB_USED", "FB_TOTAL"}
                            THEN mibToBytes(fieldValues[f].Value)
                            ELSE fieldValues[f].Value]>>
          ELSE <<>>) \o fieldSeries(gpuID, fieldValues, Tail(fields))

\* a loop over the devices that ends at the first device whose device info
\* or field values cannot be read
RECURSIVE telemetryLoop_stopOnFailure(_, _, _)
telemetryLoop_stopOnFailure(sent, queries, gpus) ==
    IF gpus = <<>> THEN [sent |-> sent, queries |-> queries]
    ELSE LET g == Head(gpus) IN
         IF ~g.info
         THEN [sent |-> sent, queries |-> queries]
         ELSE LET r == collectFieldValues(g.id, g.query) IN
              IF r.err # "nil"
              THEN [sent |-> sent,
                    queries |-> Append(queries, [gpu |-> g.id, err |-> r.err,
                                                 calls |-> r.calls,
                                                 values |-> g.query.values])]
              ELSE telemetryLoop_stopOnFailure(
                       sent \o fieldSeries(g.id, r.result, gpuMetricFields),
                       Append(queries, [gpu |-> g.id, err |-> r.err, calls |-> r.calls,
                                        values |-> g.query.values]),
                       Tail(gpus))

\* the loop "for _, gpuID := range gpus" of gpuMetricsCollector.Update:
\* the series sent and, per device, the calls made to the driver
RECURSIVE telemetryLoop(_, _, _)
telemetryLoop(sent, queries, gpus) ==
    IF gpus = <<>> THEN [sent |-> sent, queries |-> queries]
    ELSE LET g == Head(gpus) IN
         IF ~g.info
         THEN telemetryLoop(sent, queries, Tail(gpus))
         ELSE LET r == collectFieldValues(g.id, g.query) IN
              telemetryLoop(
                  IF r.err # "nil" THEN sent
                  ELSE sent \o fieldSeries(g.id, r.result, gpuMetricFields),
                  Append(queries, [gpu |-> g.id, err |-> r.err, calls |-> r.calls,
                                   values |-> g.query.values]),
                  Tail(gpus))

\* gpuMetricsCollector.Update with the field queries spelled out
telemetryUpdate(in) ==
    IF ~in.init THEN [err |-> "error", sent |-> <<>>, queries |-> <<>>]
    ELSE IF ~in.list THEN [err |-> "error", sent |-> <<>>, queries |-> <<>>]
    ELSE IF Len(in.gpus) = 0 THEN [err |-> "nil", sent |-> <<>>, queries |-> <<>>]
    ELSE LET l == telemetryLoop(<<>>, <<>>, in.gpus)
         IN  [err |-> "nil", sent |-> l.sent, queries |-> l.queries]

\* what GetLatestValuesForFields returns for a device: one value per field
\* with every status OK, with the temperature invalid, with every field
\* invalid, or without the temperature
FieldValues(gpuID, invalid, absent) ==
    LET all == [i \in 1..Len(gpuMetricFields) |->
                   [FieldID |-> gpuMetricFields[i],
                    Status |-> IF gpuMetricFields[i] \in invalid THEN "NOT_SUPPORTED" ELSE "OK",
                    Value |-> IF gpuMetricFields[i] \in invalid THEN 0 ELSE 10 * (gpuID + 1) + i]]
        Present(v) == v.FieldID \notin absent
    IN  SelectSeq(all, Present)
ValuePatterns(gpuID) ==
    {FieldValues(gpuID, {}, {}), FieldValues(gpuID, {"GPU_TEMP"}, {}),
     FieldValues(gpuID, Range(gpuMetricFields), {}), FieldValues(gpuID, {}, {"GPU_TEMP"})}

\* the driver's answers to one field query
QueryAnswers(gpuID) ==
    LET q(create, watch, read, values, dg, dfg) ==
            [create |-> create, watch |-> watch, read |-> read, values |-> values,
             destroyGroup |-> dg, fieldGroupDestroy |-> dfg]
    IN  {q(FALSE, FALSE, FALSE, <<>>, TRUE, TRUE)}
        \cup {q(TRUE, FALSE, FALSE, <<>>, TRUE, dfg) : dfg \in BOOLEAN}
        \cup {q(TRUE, TRUE, FALSE, <<>>, dg, TRUE) : dg \in BOOLEAN}
        \cup {q(TRUE, TRUE, TRUE, v, TRUE, TRUE) : v \in ValuePatterns(gpuID)}
        \cup {q(TRUE, TRUE, TRUE, FieldValues(gpuID, {}, {}), d[1], d[2]) :
                d \in {<<FALSE, TRUE>>, <<TRUE, FALSE>>}}
DeviceAnswers(gpuID) ==
    {[id |-> gpuID, info |-> FALSE, query |-> CHOOSE q \in QueryAnswers(gpuID) : ~q.create]}
    \cup {[id |-> gpuID, info |-> TRUE, query |-> q] : q \in QueryAnswers(gpuID)}
TelemetryAnswers ==
    {[init |-> FALSE, list |-> TRUE, gpus |-> <<>>],
     [init |-> TRUE, list |-> FALSE, gpus |-> <<>>],
     [init |-> TRUE, list |-> TRUE, gpus |-> <<>>]}
    \cup {[init |-> TRUE, list |-> TRUE, gpus |-> <<a>>] : a \in DeviceAnswers(0)}
    \cup {[init |-> TRUE, list |-> TRUE, gpus |-> <<a, b>>] :
            a \in DeviceAnswers(0), b \in DeviceAnswers(1)}

NoMetrics ==
    [outstanding |-> {},
     in |-> [init |-> TRUE, list |-> TRUE, gpus |-> <<>>],
     out |-> [err |-> "nil", sent |-> <<>>, queries |-> <<>>]]

\* ------------------------------------------------ orchestrator construction
\* registerCollector calls of the package's init functions, and a stand-in
\* for any further implementation of the Collector interface
Collectors == {"gpu_process", "gpu_metrics", "stub"}

\* the number of orchestrators constructed in one process
MaxConstructions == 3

\* the n-th collector the factory of name has returned
Instance(name, n) == [collector |-> name, instance |-> n]

\* the error values NewNvidiaGPUCollector can return
NilError == [nil |-> TRUE, factory |-> ""]
FactoryError(name) == [nil |-> FALSE, factory |-> name]

\* a construction loop that never stores what a factory returned
constructLoop_noReuse(collectors, initiated, calls, keys, fails) ==
    IF \E key \in Range(keys) : key \notin DOMAIN initiated /\ key \in fails
    THEN [err |-> FactoryError(CHOOSE key \in Range(keys) :
                                    key \notin DOMAIN initiated /\ key \in fails),
          collectors |-> EmptyMap, initiated |-> initiated,
          calls |-> [k \in DOMAIN calls |-> calls[k] + 1]]
    ELSE [err |-> NilError,
          collectors |-> [k \in Range(keys) |-> Instance(k, calls[k] + 1)],
          initiated |-> initiated,
          calls |-> [k \in DOMAIN calls |-> calls[k] + 1]]

\* the loop "for key := range collectorState" of NewNvidiaGPUCollector over
\* the keys still to visit: fails are the names whose factory returns an
\* error when invoked, calls counts the invocations of each factory
RECURSIVE constructLoop(_, _, _, _, _)
constructLoop(collectors, initiated, calls, keys, fails) ==
    IF keys = <<>>
    THEN [err |-> NilError, collectors |-> collectors, initiated |-> initiated,
          calls |-> calls]
    ELSE LET key == Head(keys) IN
         IF key \in DOMAIN initiated
         THEN constructLoop(MapPut(collectors, key, initiated[key]), initiated, calls,
                            Tail(keys), fails)
         ELSE IF key \in fails
         THEN [err |-> FactoryError(key), collectors |-> EmptyMap,
               initiated |-> initiated, calls |-> [calls EXCEPT ![key] = @ + 1]]
         ELSE LET collector == Instance(key, calls[key] + 1) IN
              constructLoop(MapPut(collectors, key, collector),
                            MapPut(initiated, key, collector),
                            [calls EXCEPT ![key] = @ + 1], Tail(keys), fails)

\* the orders in which a range over collectorState can visit its keys
KeyOrders ==
    {o \in [1..Cardinality(Collectors) -> Collectors] :
        \A i, j \in DOMAIN o : i # j => o[i] # o[j]}

NoRegistry ==
    [initiatedCollectors |-> EmptyMap,
     calls |-> [name \in Collectors |-> 0],
     constructions |-> 0,
     last |-> [err |-> NilError, Collectors |-> EmptyMap, fails |-> {}],
     orchestrators |-> {}]

\* ------------------------------- the collector that reports GPU memory only
\* sanitizeBytes of this collector
sanitizeUsageBytes(value) == IF value <= 0 THEN 0 ELSE value

\* the loop of appendNVMLProcessUsages over the processes a getter listed
RECURSIVE appendProcesses(_, _, _)
appendProcesses(dst, processes, gpuIndex) ==
    IF processes = <<>> THEN dst
    ELSE LET info == Head(processes) IN
         IF info.Pid = 0
         THEN appendProcesses(dst, Tail(processes), gpuIndex)
         ELSE appendProcesses(
                  Append(dst, [gpu |-> gpuIndex, pid |-> info.Pid,
                               memBytes |-> info.UsedGpuMemory]),
                  Tail(processes), gpuIndex)

\* appendNVMLProcessUsages(dst, getter, typ, gpuIndex, logger): got = [ret,
\* processes] is what the getter returned
appendNVMLProcessUsages(dst, got, gpuIndex) ==
    IF got.ret = "SUCCESS"
    THEN [err |-> "nil", dst |-> appendProcesses(dst, got.processes, gpuIndex)]
    ELSE IF got.ret \in {"ERROR_NOT_SUPPORTED", "ERROR_NO_PERMISSION", "ERROR_NOT_FOUND"}
    THEN [err |-> "nil", dst |-> dst]
    ELSE [err |-> "error", dst |-> dst]

\* the device loop of nvmlGPUProcessUsages from device index i on
RECURSIVE usagesDeviceLoop(_, _, _)
usagesDeviceLoop(usages, devs, i) ==
    IF devs = <<>> THEN [err |-> "nil", usages |-> usages]
    ELSE LET dev == Head(devs) IN
         IF dev.handle # "SUCCESS"
         THEN [err |-> "error", usages |-> <<>>]
         ELSE LET c == appendNVMLProcessUsages(usages, dev.compute, i) IN
              IF c.err # "nil"
              THEN [err |-> c.err, usages |-> <<>>]
              ELSE LET g == appendNVMLProcessUsages(c.dst, dev.graphics, i) IN
                   IF g.err # "nil"
                   THEN [err |-> g.err, usages |-> <<>>]
                   ELSE usagesDeviceLoop(g.dst, Tail(devs), i + 1)

\* the less function handed to sort.Slice: by gpu, then by pid
usageLess(a, b) == IF a.gpu = b.gpu THEN a.pid < b.pid ELSE a.gpu < b.gpu

\* sort.Slice(usages, less): records that compare equal keep their place
\* here; sort.Slice may put them in either order
RECURSIVE insertUsage(_, _)
insertUsage(sorted, u) ==
    IF sorted = <<>> THEN <<u>>
    ELSE IF usageLess(u, Head(sorted)) THEN <<u>> \o sorted
    ELSE <<Head(sorted)>> \o insertUsage(Tail(sorted), u)

RECURSIVE sortUsages(_)
sortUsages(usages) ==
    IF usages = <<>> THEN <<>>
    ELSE insertUsage(sortUsages(SubSeq(usages, 1, Len(usages) - 1)), usages[Len(usages)])

\* nvmlGPUProcessUsages: drv = [init, count, devices] is what the driver
\* answers; err is "nil", "unavailable" or "error"
nvmlGPUProcessUsages(drv) ==
    IF drv.init # "SUCCESS"
    THEN [err |-> wrapNVMLAvailabilityError(drv.init), usages |-> <<>>]
    ELSE IF drv.count # "SUCCESS"
    THEN [err |-> wrapNVMLAvailabilityError(drv.count), usages |-> <<>>]
    ELSE LET r == usagesDeviceLoop(<<>>, drv.devices, 0) IN
         IF r.err # "nil" THEN [err |-> r.err, usages |-> <<>>]
         ELSE [err |-> "nil", usages |-> sortUsages(r.usages)]

\* the loop "for _, usage := range usages" of Update: hostFails are the pids
\* collectProcessInfo fails for, metaCache the pids with metadata cached
RECURSIVE usageLoop(_, _, _, _)
usageLoop(usages, metaCache, sent, hostFails) ==
    IF usages = <<>> THEN sent
    ELSE LET u == Head(usages) IN
         IF u.pid \notin metaCache /\ u.pid \in hostFails
         THEN usageLoop(Tail(usages), metaCache, sent, hostFails)
         ELSE usageLoop(Tail(usages), metaCache \cup {u.pid},
                        Append(sent, [desc |-> "gpu_process_gpu_memory", gpu |-> u.gpu,
                                      pid |-> u.pid,
                                      gpuMem |-> sanitizeUsageBytes(u.memBytes)]),
                        hostFails)

\* gpuProcessCollector.Update of the collector that reports GPU memory only
UpdateUsages(drv, hostFails) ==
    LET r == nvmlGPUProcessUsages(drv) IN
    IF r.err = "unavailable"
    THEN [err |-> "nil", path |-> "unavailable", usages |-> <<>>, sent |-> <<>>]
    ELSE IF r.err # "nil"
    THEN [err |-> "error", path |-> "enum_error", usages |-> <<>>, sent |-> <<>>]
    ELSE IF Len(r.usages) = 0
    THEN [err |-> "nil", path |-> "empty", usages |-> <<>>, sent |-> <<>>]
    ELSE [err |-> "nil", path |-> "done", usages |-> r.usages,
          sent |-> usageLoop(r.usages, {}, <<>>, hostFails)]

\* what a getter of this collector can return: processes with the GPU memory
\* they use (pid 0 is possible), or a code
UsageLists ==
    {<<[Pid |-> 1, UsedGpuMemory |-> 1]>>,
     <<[Pid |-> 1, UsedGpuMemory |-> 2], [Pid |-> 2, UsedGpuMemory |-> 1]>>,
     <<[Pid |-> 0, UsedGpuMemory |-> 1], [Pid |-> 2, UsedGpuMemory |-> 0]>>}
UsageGetterResults ==
    {[ret |-> "SUCCESS", processes |-> l] : l \in UsageLists}
    \cup {[ret |-> r, processes |-> <<>>] : r \in {"ERROR_NOT_SUPPORTED", "ERROR_UNKNOWN"}}
UsageDeviceResponses ==
    {[handle |-> "ERROR_GPU_IS_LOST", compute |-> [ret |-> "SUCCESS", processes |-> <<>>],
      graphics |-> [ret |-> "SUCCESS", processes |-> <<>>]]}
    \cup [handle : {"SUCCESS"}, compute : UsageGetterResults, graphics : UsageGetterResults]
UsageDriverResponses ==
    {[init |-> "ERROR_DRIVER_NOT_LOADED", count |-> "SUCCESS", devices |-> <<>>],
     [init |-> "SUCCESS", count |-> "ERROR_GPU_IS_LOST", devices |-> <<>>],
     [init |-> "SUCCESS", count |-> "SUCCESS", devices |-> <<>>]}
    \cup {[init |-> "SUCCESS", count |-> "SUCCESS", devices |-> <<d>>] :
            d \in UsageDeviceResponses}
    \cup {[init |-> "SUCCESS", count |-> "SUCCESS", devices |-> <<d, e>>] :
            d \in UsageDeviceResponses, e \in UsageDeviceResponses}

NoUsage ==
    [err |-> "nil", path |-> "none", usages |-> <<>>, sent |-> <<>>, hostFails |-> {}]

vars == <<cpuSamples, systemSample, last, quietGap, collect, race, labels, metrics, registry,
          asked, usage, aligned, channel>>

NoCycle ==
    [err |-> "nil", path |-> "none", sent |-> <<>>, pids |-> <<>>, total |-> 0,
     systemDelta |-> 0, hasSystemDelta |-> FALSE, read |-> EmptyMap, wasQuiet |-> FALSE]

\* no Collect has been called yet
NoCollect ==
    [phase |-> "idle",
     pc |-> [c \in Collectors |-> "idle"],
     err |-> [c \in Collectors |-> "nil"],
     sent |-> [c \in Collectors |-> <<>>],
     own |-> [c \in Collectors |-> <<>>],
     wg |-> 0,
     enum |-> [err |-> "nil", ret |-> "SUCCESS"]]

\* SpecRace: the scrapes in flight. Collect is called once per scrape, on the
\* goroutine of that scrape's HTTP request, and every Collect runs Update on
\* the one gpuProcessCollector built by NewNvidiaGPUCollector.
Scrapes == {1, 2}

\* an Update not running: pc is where it stands, active the pids enumerated,
\* rest the pids of the loop still to do, prev and seen what it last read of
\* systemSample and of cpuSamples[pid]
NoScrape ==
    [pc |-> "idle", active |-> <<>>, rest |-> <<>>, total |-> 0,
     prev |-> NoSystemSample, systemDelta |-> 0, hasSystemDelta |-> FALSE,
     procSeconds |-> 0, seen |-> [ok |-> FALSE, cpuSeconds |-> 0]]

NoRace == [th |-> [t \in Scrapes |-> NoScrape], fatal |-> FALSE]

Init ==
    /\ cpuSamples = EmptyMap
    /\ systemSample = NoSystemSample
    /\ last = NoCycle
    /\ quietGap = FALSE
    /\ collect = NoCollect
    /\ race = NoRace
    /\ labels = NoLabels
    /\ metrics = NoMetrics
    /\ registry = NoRegistry
    /\ asked = EmptyMap
    /\ usage = NoUsage
    /\ aligned = {}
    /\ channel = <<>>

\* the collector fields and the cycle record after Update returned r
Returned(r) ==
    /\ cpuSamples' = r.cpuSamples
    /\ systemSample' = r.systemSample
    /\ last' = [err |-> r.err, path |-> r.path, sent |-> r.sent, pids |-> r.pids,
                total |-> r.total, systemDelta |-> r.systemDelta,
                hasSystemDelta |-> r.hasSystemDelta, read |-> r.read,
                wasQuiet |-> quietGap]
    /\ quietGap' = IF r.path = "reset" THEN TRUE
                   ELSE IF r.path \in {"unavailable", "enum_error"} THEN quietGap
                   ELSE FALSE

\* Update applied to the collector's fields with the answers in
Run(in) ==
    /\ \E r \in {Update([cpuSamples |-> cpuSamples, systemSample |-> systemSample], in)} :
          Returned(r)
    /\ UNCHANGED <<collect, race, others>>

\* one scrape's gpuProcessCollector.Update, start to return
Cycle ==
    \E e \in EnumOutcomes :
      IF e.err # "nil" \/ Len(e.pids) = 0
      THEN Run([enum |-> e, cpuTimes |-> NoAnswers, dcgmInit |-> TRUE,
                watch |-> TRUE, proc |-> EmptyMap])
      ELSE \E t \in CPUTimes :
             IF ~t.ok
             THEN Run([enum |-> e, cpuTimes |-> t, dcgmInit |-> TRUE,
                       watch |-> TRUE, proc |-> EmptyMap])
             ELSE \E up \in {<<FALSE, TRUE>>, <<TRUE, FALSE>>, <<TRUE, TRUE>>} :
                    IF ~(up[1] /\ up[2])
                    THEN Run([enum |-> e, cpuTimes |-> t, dcgmInit |-> up[1],
                              watch |-> up[2], proc |-> EmptyMap])
                    ELSE \E proc \in [Range(e.pids) -> ProcAnswers] :
                           Run([enum |-> e, cpuTimes |-> t, dcgmInit |-> TRUE,
                                watch |-> TRUE, proc |-> proc])

Next == Cycle

Spec == Init /\ [][Next]_vars

\* ------------------------------------------------- claims on Update cycles
\* the cycle enumerated successfully (whatever it did afterwards)
Enumerated(rec) == rec.path \in {"reset", "abort_cputimes", "abort_init", "abort_watch", "done"}

\* the cycle reached updateSystemSample
SampledSystem(rec) == rec.path \in {"abort_init", "abort_watch", "done"}

\* the series a cycle sent for pid
SeriesOf(rec, pid) == {rec.sent[i] : i \in {j \in 1..Len(rec.sent) : rec.sent[j].pid = pid}}

\* C4: after every cycle of Update that enumerated, on whatever path, no pid
\* absent from that cycle's enumeration is a key of cpuSamples (the half of
\* "the key set equals the enumerated set" that pruning is there for).
C4_NoStaleKey ==
    Enumerated(last) => DOMAIN cpuSamples \subseteq Range(last.pids)

\* C5: the CPU% a cycle reports for a pid is (processDelta / systemDelta) x
\* numCPU x 100 when the pid had a sample, a system sample existed, and both
\* deltas are strictly positive; in every other case it is exactly 0.
C5_CPUPercentFormula ==
    [][\A pid \in DOMAIN last'.read :
          LET procDelta == last'.read[pid] - cpuSamples[pid]
              sysDelta == last'.total - systemSample.totalSeconds
              expected ==
                  IF /\ pid \in DOMAIN cpuSamples
                     /\ systemSample.initialized
                     /\ sysDelta > 0
                     /\ procDelta > 0
                  THEN Frac(procDelta * NumCPU * 100, sysDelta)
                  ELSE Zero
          IN  /\ SeriesOf(last', pid) # {}
              /\ \A m \in SeriesOf(last', pid) : m.cpu = expected]_vars

\* C5 witness: a cycle reported a non-zero CPU% for some pid
C5_Witness ==
    /\ last.path = "done"
    /\ \E i \in 1..Len(last.sent) : last.sent[i].cpu # Zero

\* C6: after a cycle whose enumeration reports no process, cpuSamples is empty
\* and systemSample is uninitialized; and in the next cycle that enumerates a
\* process again every CPU% reported is exactly 0.
C6_QuietGapReportsZero ==
    /\ last.path = "reset" => cpuSamples = EmptyMap /\ systemSample = NoSystemSample
    /\ (last.wasQuiet /\ Enumerated(last) /\ last.path # "reset")
          => \A i \in 1..Len(last.sent) : last.sent[i].cpu = Zero

\* C6 witness: the first cycle with processes after a quiet cycle sent series
C6_Witness ==
    last.wasQuiet /\ last.path = "done" /\ Len(last.sent) > 0

\* C7: a pid enumerated in cycle N and absent from the enumeration of cycle
\* N+1 is no longer a key of cpuSamples once cycle N+1 is over.
C7_PrunedWhenAbsent ==
    [][\A pid \in Range(last.pids) :
          (Enumerated(last') /\ pid \notin Range(last'.pids))
              => pid \notin DOMAIN cpuSamples']_vars

\* C8: whenever a cycle computed a pid's CPU%, the sample stored for the pid
\* after the cycle is the cumulative CPU seconds read in that cycle, whatever
\* value was reported.
C8_SampleStoredUnconditionally ==
    \A pid \in DOMAIN last.read :
        pid \in DOMAIN cpuSamples /\ cpuSamples[pid] = last.read[pid]

\* C8 witness: a pid was reported 0 although the system delta was valid
\* (first sighting, or a process delta <= 0)
C8_Witness ==
    /\ last.path = "done" /\ last.hasSystemDelta
    /\ \E i \in 1..Len(last.sent) : last.sent[i].cpu = Zero

\* C9: updateSystemSample(total) returns max(0, total - previous) when a
\* previous sample exists (0 on the first read), valid exactly when a previous
\* sample existed and the delta is strictly positive; afterwards the stored
\* sample is total and initialized in every case; the delta is never negative.
C9_SystemSample ==
    [][SampledSystem(last') =>
          LET diff == last'.total - systemSample.totalSeconds IN
          /\ systemSample' = [totalSeconds |-> last'.total, initialized |-> TRUE]
          /\ last'.systemDelta =
                IF systemSample.initialized /\ diff > 0 THEN diff ELSE 0
          /\ last'.hasSystemDelta = (systemSample.initialized /\ diff > 0)
          /\ last'.systemDelta >= 0]_vars

\* C9 witness: a cycle read a larger total than the stored sample and got a
\* valid delta of more than one second
C9_Witness ==
    /\ SampledSystem(last) /\ last.hasSystemDelta /\ last.systemDelta > 1
    /\ systemSample = [totalSeconds |-> last.total, initialized |-> TRUE]

\* the return codes of nvml.Init and nvml.DeviceGetCount that mean the
\* process listing is unavailable
UnavailableReturns ==
    {"ERROR_UNINITIALIZED", "ERROR_LIBRARY_NOT_FOUND", "ERROR_DRIVER_NOT_LOADED",
     "ERROR_NOT_SUPPORTED", "ERROR_NO_PERMISSION", "ERROR_UNKNOWN"}

\* C27: an enumeration that fails at nvml.Init or nvml.DeviceGetCount with
\* one of the unavailability codes is classified as unavailable; a cycle with
\* such an enumeration returns nil, sends nothing and leaves cpuSamples and
\* systemSample as they were, while a cycle that enumerates no process
\* returns nil, sends nothing and clears both.
C27_UnavailableKeepsSamples ==
    [][/\ \A ret \in UnavailableReturns :
             /\ nvmlProcessPIDs([init |-> ret, count |-> "SUCCESS", devices |-> <<>>]).err
                   = "unavailable"
             /\ nvmlProcessPIDs([init |-> "SUCCESS", count |-> ret, devices |-> <<>>]).err
                   = "unavailable"
       /\ last'.path = "unavailable" =>
             /\ last'.err = "nil" /\ last'.sent = <<>>
             /\ cpuSamples' = cpuSamples /\ systemSample' = systemSample
       /\ last'.path = "reset" =>
             /\ last'.err = "nil" /\ last'.sent = <<>>
             /\ cpuSamples' = EmptyMap /\ systemSample' = NoSystemSample]_vars

\* C27 witness: a cycle found the enumeration unavailable and the samples
\* of an earlier cycle are still stored
C27_Witness ==
    /\ last.path = "unavailable" /\ last.err = "nil"
    /\ cpuSamples # EmptyMap /\ systemSample.initialized

\* C17: the first cycle of a collector reports CPU% 0 for every pid; when a
\* pid is sampled in two consecutive successful cycles with system CPU-seconds
\* s1 < s2 and process CPU-seconds p1 < p2, the second cycle reports
\* ((p2 - p1) / (s2 - s1)) x numCPU x 100. With s1 = 100, s2 = 110, p1 = 2,
\* p2 = 3 and 8 cores the two values are 0 and 80.
C17_TwoCycleCPUPercent ==
    [][/\ (cpuSamples = EmptyMap /\ ~systemSample.initialized) =>
             \A i \in 1..Len(last'.sent) : last'.sent[i].cpu = Zero
       /\ (last.path = "done" /\ last'.path = "done" /\ last.total < last'.total) =>
             \A pid \in DOMAIN last.read \cap DOMAIN last'.read :
                 last.read[pid] < last'.read[pid] =>
                     /\ SeriesOf(last', pid) # {}
                     /\ \A m \in SeriesOf(last', pid) :
                           m.cpu = Frac((last'.read[pid] - last.read[pid]) * NumCPU * 100,
                                        last'.total - last.total)
       /\ LET u1 == updateSystemSample(NoSystemSample, 100)
              r1 == processCPUPercent(EmptyMap, 42, 2, u1.delta, u1.ok, 8)
              u2 == updateSystemSample(u1.sys, 110)
              r2 == processCPUPercent(r1.samples, 42, 3, u2.delta, u2.ok, 8)
          IN  r1.percent = Zero /\ r2.percent = <<80, 1>>]_vars

\* C17 witness: after a cycle that read 1 second for a pid, a cycle two
\* system seconds later read 2 seconds for it and reported the quotient
C17_Witness ==
    \E pid \in DOMAIN last.read :
        /\ last.path = "done" /\ last.hasSystemDelta /\ last.systemDelta = 2
        /\ last.read[pid] = 2
        /\ \E m \in SeriesOf(last, pid) : m.cpu = Frac(NumCPU * 100, 2)

\* SpecDevices: per pid, a process answered on both devices, with a memory
\* percentage of its own
TwoDeviceAnswers ==
    {[dcgm |-> "ok",
      infos |-> <<[GPU |-> 0, GlobalUsed |-> 1], [GPU |-> 1, GlobalUsed |-> 1]>>,
      host |-> "ok", memPercent |-> m, cpuSeconds |-> s] : m \in {0, 1}, s \in Seconds}

\* -------------------- SpecBaseline: cycles with the age of the samples kept
\* Update applied to the collector's fields with the answers in. A cycle
\* that gets as far as updateSystemSample stores a new system sample, and
\* stores a sample for the pids it reads CPU seconds for; resetCPUSamples
\* drops both; a cycle that returns earlier stores nothing.
RunBaseline(in) ==
    /\ \E r \in {Update([cpuSamples |-> cpuSamples, systemSample |-> systemSample], in)} :
          /\ Returned(r)
          /\ aligned' = IF r.path \in {"done", "abort_init", "abort_watch"}
                        THEN DOMAIN r.read
                        ELSE IF r.path = "reset" THEN {}
                        ELSE aligned
    /\ UNCHANGED <<collect, race, labels, metrics, registry, asked, usage, channel>>

\* one scrape's gpuProcessCollector.Update, start to return
CycleBaseline ==
    \E e \in EnumOutcomes :
      IF e.err # "nil" \/ Len(e.pids) = 0
      THEN RunBaseline([enum |-> e, cpuTimes |-> NoAnswers, dcgmInit |-> TRUE,
                        watch |-> TRUE, proc |-> EmptyMap])
      ELSE \E t \in CPUTimes :
             IF ~t.ok
             THEN RunBaseline([enum |-> e, cpuTimes |-> t, dcgmInit |-> TRUE,
                               watch |-> TRUE, proc |-> EmptyMap])
             ELSE \E up \in {<<FALSE, TRUE>>, <<TRUE, FALSE>>, <<TRUE, TRUE>>} :
                    IF ~(up[1] /\ up[2])
                    THEN RunBaseline([enum |-> e, cpuTimes |-> t, dcgmInit |-> up[1],
                                      watch |-> up[2], proc |-> EmptyMap])
                    ELSE \E proc \in [Range(e.pids) -> ProcAnswers] :
                           RunBaseline([enum |-> e, cpuTimes |-> t, dcgmInit |-> TRUE,
                                        watch |-> TRUE, proc |-> proc])

NextBaseline == CycleBaseline

SpecBaseline == Init /\ [][NextBaseline]_vars

\* C26: whenever a cycle reports a CPU% other than 0 for a pid, the sample
\* of the pid and the system sample it was computed against were stored in
\* one and the same earlier cycle, whatever cycles came before (cycles that
\* returned an error after storing the system sample, and cycles that
\* skipped the pid, included).
C26_BaselineAligned ==
    [][\A pid \in DOMAIN last'.read :
          (\E m \in SeriesOf(last', pid) : m.cpu # Zero) => pid \in aligned]_vars

\* ------------------------------ SpecAsked: cycles with the answers kept
\* one scrape's gpuProcessCollector.Update that reaches the loop over the
\* pids; what was answered for every pid is kept in asked
RunAsked(e, total, proc) ==
    /\ \E r \in {Update([cpuSamples |-> cpuSamples, systemSample |-> systemSample],
                        [enum |-> e, cpuTimes |-> [ok |-> TRUE, total |-> total],
                         dcgmInit |-> TRUE, watch |-> TRUE, proc |-> proc])} :
          Returned(r)
    /\ asked' = proc
    /\ UNCHANGED <<collect, race, labels, metrics, registry, usage, aligned, channel>>

\* a cycle with one process enumerated, answered with a raw reading
CycleRaw ==
    \E e \in {o \in EnumOutcomes : o.err = "nil" /\ Len(o.pids) = 1} :
    \E total \in Seconds :
    \E proc \in [Range(e.pids) -> RawAnswers] :
        RunAsked(e, total, proc)

\* a cycle in which collectProcessInfo fails or succeeds per pid
CycleHost ==
    \E e \in {o \in EnumOutcomes : o.err = "nil" /\ Len(o.pids) > 0} :
    \E total \in Seconds :
    \E proc \in [Range(e.pids) -> HostAnswers] :
        RunAsked(e, total, proc)

NextAsked == CycleRaw \/ CycleHost

SpecAsked == Init /\ [][NextAsked]_vars

\* C18: every value the process collector emits is at least 0: CPU% and
\* memory% are never negative, also when process or system CPU-seconds went
\* down or the raw memory percentage is negative, and the GPU memory value is
\* 0 when the raw reading is not positive or is the driver's blank sentinel.
C18_ValuesNonNegative ==
    \A i \in 1..Len(last.sent) :
        LET m == last.sent[i]
            raw == asked[m.pid].infos[1].GlobalUsed
        IN  /\ ~FracNeg(m.cpu) /\ m.cpu[2] > 0
            /\ m.mem >= 0
            /\ m.gpuMem >= 0
            /\ (raw <= 0 \/ raw >= Int64Blank) => m.gpuMem = 0

\* C18 witness: a cycle emitted the series of a process whose raw memory
\* percentage was negative and whose raw GPU memory was above the sentinel,
\* in a cycle with a system delta in which its CPU-seconds read 0
C18_Witness ==
    \E pid \in DOMAIN asked :
        /\ last.path = "done"
        /\ \E m \in SeriesOf(last, pid) : m.mem = 0 /\ m.gpuMem = 0 /\ m.cpu = Zero
        /\ asked[pid].memPercent < 0
        /\ asked[pid].infos[1].GlobalUsed > Int64Blank
        /\ last.hasSystemDelta
        /\ asked[pid].cpuSeconds = 0

\* ------------------- SpecDevices: cycles with processes on several devices
\* a cycle with several processes enumerated, each answered on both devices
CycleDevices ==
    \E e \in {o \in EnumOutcomes : o.err = "nil" /\ Len(o.pids) > 1} :
    \E total \in Seconds :
    \E proc \in [Range(e.pids) -> TwoDeviceAnswers] :
        RunAsked(e, total, proc)

NextDevices == CycleDevices

SpecDevices == Init /\ [][NextDevices]_vars

\* the positions of the series sent for pid
SentAt(rec, pid) == {i \in 1..Len(rec.sent) : rec.sent[i].pid = pid}

\* C22: in a cycle that reaches the loop over the pids, the system sample is
\* read and replaced once (the delta of the cycle is the one taken against
\* the sample of before, and the sample afterwards is this cycle's reading);
\* the enumerated pids are distinct, so the sample of each pid is read and
\* replaced at most once and one series is sent per device the process is
\* answered on; and all series of one pid carry the same CPU% and memory%.
C22_PerCycleConsistency ==
    [][/\ \A i, j \in 1..Len(last'.pids) : last'.pids[i] = last'.pids[j] => i = j
       /\ last'.path = "done" =>
             LET u == updateSystemSample(systemSample, last'.total) IN
             /\ systemSample' = [totalSeconds |-> last'.total, initialized |-> TRUE]
             /\ last'.systemDelta = u.delta /\ last'.hasSystemDelta = u.ok
             /\ \A pid \in DOMAIN last'.read :
                   /\ cpuSamples'[pid] = last'.read[pid]
                   /\ Cardinality(SentAt(last', pid)) = Len(asked'[pid].infos)
                   /\ \A i \in SentAt(last', pid) :
                         /\ last'.sent[i].cpu =
                               processCPUPercent(cpuSamples, pid, last'.read[pid],
                                                 u.delta, u.ok, NumCPU).percent
                         /\ last'.sent[i].mem = asked'[pid].memPercent
                                \/ (asked'[pid].memPercent < 0 /\ last'.sent[i].mem = 0)
             /\ \A i, j \in 1..Len(last'.sent) :
                   last'.sent[i].pid = last'.sent[j].pid =>
                       /\ last'.sent[i].cpu = last'.sent[j].cpu
                       /\ last'.sent[i].mem = last'.sent[j].mem]_vars

\* C22 witness: a cycle sent, for each of two processes, one series per
\* device with the same non-zero CPU% on both devices, and the two processes
\* differ in CPU% and in memory%
C22_Witness ==
    /\ last.path = "done" /\ last.pids = <<1, 2>>
    /\ Cardinality(SentAt(last, 1)) = 2 /\ Cardinality(SentAt(last, 2)) = 2
    /\ \A i \in SentAt(last, 1) : \A j \in SentAt(last, 2) :
          /\ last.sent[i].cpu # Zero /\ last.sent[j].cpu # Zero
          /\ last.sent[i].cpu # last.sent[j].cpu
          /\ last.sent[i].mem # last.sent[j].mem

\* C20: when collectProcessInfo fails for an active pid, the cycle emits no
\* series for that pid, still emits the series of every other active pid
\* (one per device the process is answered on), and Update returns nil.
C20_HostFailureSkipsOnlyThatPid ==
    (\E pid \in DOMAIN asked : asked[pid].host # "ok") =>
        /\ last.err = "nil" /\ last.path = "done"
        /\ \A pid \in DOMAIN asked :
              IF asked[pid].host # "ok"
              THEN SeriesOf(last, pid) = {}
              ELSE {m.gpu : m \in SeriesOf(last, pid)}
                     = {asked[pid].infos[i].GPU : i \in 1..Len(asked[pid].infos)}

\* C20 witness: a cycle with two active pids in which the lookup failed for
\* the first and the second was emitted
C20_Witness ==
    /\ last.pids = <<1, 2>>
    /\ asked[1].host = "error" /\ asked[2].host = "ok"
    /\ SeriesOf(last, 1) = {} /\ SeriesOf(last, 2) # {}
    /\ last.err = "nil"

\* ------------------------------------------------ SpecCollect: orchestrator
\* IsNoDataError
IsNoDataError(err) == err = "ErrNoData"

\* an execute that counts "no data" as a success
executeSuccess_noDataOk(err) == IF err # "nil" /\ ~IsNoDataError(err) THEN 0 ELSE 1

\* execute: the value of the success gauge for what Update returned
executeSuccess(err) == IF err # "nil" THEN 0 ELSE 1

\* execute: the severity it logs the outcome at
executeLogLevel(err) ==
    IF err # "nil"
    THEN IF IsNoDataError(err) THEN "debug" ELSE "error"
    ELSE "debug"

\* the two meta-metrics execute sends for collector name
DurationMetric(name) ==
    [desc |-> "gpu_scrape_controller_duration_seconds", collector |-> name]
SuccessMetric(name, success) ==
    [desc |-> "gpu_scrape_controller_success", collector |-> name, value |-> success]

\* gpuMetricsCollector.Update, as far as the orchestrator sees it: in =
\* [init, list, gpus] are dcgm's answers, gpus the devices with whether their
\* device info and field values could be read
RECURSIVE DeviceSeries(_)
DeviceSeries(gpus) ==
    IF gpus = <<>> THEN <<>>
    ELSE (IF Head(gpus).ok
          THEN <<[desc |-> "gpu_metrics", gpu |-> Head(gpus).id]>>
          ELSE <<>>) \o DeviceSeries(Tail(gpus))

gpuMetricsUpdate(in) ==
    IF ~in.init THEN [err |-> "error", sent |-> <<>>]
    ELSE IF ~in.list THEN [err |-> "error", sent |-> <<>>]
    ELSE IF Len(in.gpus) = 0 THEN [err |-> "nil", sent |-> <<>>]
    ELSE [err |-> "nil", sent |-> DeviceSeries(in.gpus)]

MetricsAnswers ==
    {[init |-> FALSE, list |-> TRUE, gpus |-> <<>>],
     [init |-> TRUE, list |-> FALSE, gpus |-> <<>>],
     [init |-> TRUE, list |-> TRUE, gpus |-> <<>>]}
    \cup {[init |-> TRUE, list |-> TRUE, gpus |-> <<[id |-> 0, ok |-> a]>>] : a \in BOOLEAN}
    \cup {[init |-> TRUE, list |-> TRUE,
           gpus |-> <<[id |-> 0, ok |-> a], [id |-> 1, ok |-> b]>>] : a \in BOOLEAN, b \in BOOLEAN}

\* what an Update of the Collector interface may return
UpdateErrors == {"nil", "ErrNoData", "error"}

\* the answers the process collector gets while the orchestrator is observed:
\* one reading per quantity, since CPU values play no part in orchestration
CollectCPUTimes == {t \in CPUTimes : t.total = 0}
CollectProcAnswers == {a \in ProcAnswers : a.dcgm = "ok" /\ Len(a.infos) > 0 /\ a.cpuSeconds = 0}
EnumCases == {[err |-> r.err, pids |-> r.pids, ret |-> r.ret] : r \in EnumResults}
ProcessAnswers(e) ==
    IF e.err # "nil" \/ Len(e.pids) = 0
    THEN {[enum |-> e, cpuTimes |-> NoAnswers, dcgmInit |-> TRUE, watch |-> TRUE,
           proc |-> EmptyMap]}
    ELSE {[enum |-> e, cpuTimes |-> t, dcgmInit |-> up[1], watch |-> up[2], proc |-> proc] :
            t \in CollectCPUTimes,
            up \in {<<FALSE, TRUE>>, <<TRUE, FALSE>>, <<TRUE, TRUE>>},
            proc \in [Range(e.pids) -> CollectProcAnswers]}

\* a Collect that gives up as soon as one collector has failed
WaitDone_failFast ==
    \/ collect.wg = 0
    \/ \E c \in Collectors : collect.pc[c] # "start" /\ collect.err[c] # "nil"

\* a Collect that waits for the first collector only
WaitDone_firstDone == collect.wg < Cardinality(Collectors)

\* a Collect that stops waiting after a while
WaitDone_timeout == collect.wg >= 0

\* wg.Wait() returns
WaitDone == collect.wg = 0

\* Collect is called: wg.Add(len(n.Collectors)) and one goroutine per collector
CollectStart ==
    /\ collect.phase \in {"idle", "returned"}
    /\ collect' = [NoCollect EXCEPT !.phase = "collecting",
                                    !.pc = [c \in Collectors |-> "start"],
                                    !.wg = Cardinality(Collectors)]
    /\ UNCHANGED <<cpuSamples, systemSample, last, quietGap, race, others>>

\* execute: err := c.Update(ch) of the process collector
UpdateProcess ==
    /\ collect.phase = "collecting" /\ collect.pc["gpu_process"] = "start"
    /\ \E e \in EnumCases : \E in \in ProcessAnswers(e) :
         \E r \in {Update([cpuSamples |-> cpuSamples, systemSample |-> systemSample], in)} :
            /\ cpuSamples' = r.cpuSamples
            /\ systemSample' = r.systemSample
            /\ collect' = [collect EXCEPT !.pc["gpu_process"] = "updated",
                                          !.err["gpu_process"] = r.err,
                                          !.sent["gpu_process"] = r.sent,
                                          !.own["gpu_process"] = r.sent,
                                          !.enum = [err |-> e.err, ret |-> e.ret]]
    /\ UNCHANGED <<last, quietGap, race, others>>

\* execute: err := c.Update(ch) of the device telemetry collector
UpdateMetrics ==
    /\ collect.phase = "collecting" /\ collect.pc["gpu_metrics"] = "start"
    /\ \E in \in MetricsAnswers :
         \E r \in {gpuMetricsUpdate(in)} :
            collect' = [collect EXCEPT !.pc["gpu_metrics"] = "updated",
                                       !.err["gpu_metrics"] = r.err,
                                       !.sent["gpu_metrics"] = r.sent,
                                       !.own["gpu_metrics"] = r.sent]
    /\ UNCHANGED <<cpuSamples, systemSample, last, quietGap, race, others>>

\* execute: err := c.Update(ch) of any other Collector
UpdateStub ==
    /\ collect.phase = "collecting" /\ collect.pc["stub"] = "start"
    /\ \E err \in UpdateErrors :
         collect' = [collect EXCEPT !.pc["stub"] = "updated", !.err["stub"] = err]
    /\ UNCHANGED <<cpuSamples, systemSample, last, quietGap, race, others>>

\* execute: ch <- the duration gauge
SendDuration(name) ==
    /\ collect.phase = "collecting" /\ collect.pc[name] = "updated"
    /\ collect' = [collect EXCEPT !.pc[name] = "duration",
                                  !.sent[name] = Append(@, DurationMetric(name))]
    /\ UNCHANGED <<cpuSamples, systemSample, last, quietGap, race, others>>

\* execute: ch <- the success gauge
SendSuccess(name) ==
    /\ collect.phase = "collecting" /\ collect.pc[name] = "duration"
    /\ collect' = [collect EXCEPT !.pc[name] = "executed",
                                  !.sent[name] = Append(@, SuccessMetric(name, executeSuccess(collect.err[name])))]
    /\ UNCHANGED <<cpuSamples, systemSample, last, quietGap, race, others>>

\* the goroutine's wg.Done() after execute returned
WgDone(name) ==
    /\ collect.phase = "collecting" /\ collect.pc[name] = "executed"
    /\ collect' = [collect EXCEPT !.pc[name] = "done", !.wg = @ - 1]
    /\ UNCHANGED <<cpuSamples, systemSample, last, quietGap, race, others>>

\* wg.Wait() returns and with it Collect
CollectReturn ==
    /\ collect.phase = "collecting" /\ WaitDone
    /\ collect' = [collect EXCEPT !.phase = "returned"]
    /\ UNCHANGED <<cpuSamples, systemSample, last, quietGap, race, others>>

NextCollect ==
    \/ CollectStart
    \/ UpdateProcess
    \/ UpdateMetrics
    \/ UpdateStub
    \/ \E name \in Collectors : SendDuration(name)
    \/ \E name \in Collectors : SendSuccess(name)
    \/ \E name \in Collectors : WgDone(name)
    \/ CollectReturn

SpecCollect == Init /\ [][NextCollect]_vars

\* --------------------------------------------------- claims on one Collect
DurationDesc == "gpu_scrape_controller_duration_seconds"
SuccessDesc == "gpu_scrape_controller_success"

\* where, on the channel, the meta-metrics desc labelled name were sent:
\* <<sending goroutine, position>>
MetaSent(desc, name) ==
    UNION {{<<c, i>> : i \in {j \in 1..Len(collect.sent[c]) :
                                /\ collect.sent[c][j].desc = desc
                                /\ collect.sent[c][j].collector = name}} :
           c \in Collectors}

\* a goroutine of the Collect in progress can take its next step
CanStep(name) ==
    \/ collect.pc[name] = "start"
    \/ ENABLED SendDuration(name)
    \/ ENABLED SendSuccess(name)
    \/ ENABLED WgDone(name)

\* C2: when Collect returns, for every registered collector, whatever its
\* Update returned, exactly one duration gauge and exactly one success gauge
\* with its name were sent, and the success value is 1 exactly when Update
\* returned nil (0 for ErrNoData and for any other error).
C2_TwoMetaMetricsPerCollector ==
    collect.phase = "returned" =>
        \A name \in Collectors :
            /\ Cardinality(MetaSent(DurationDesc, name)) = 1
            /\ Cardinality(MetaSent(SuccessDesc, name)) = 1
            /\ \A w \in MetaSent(SuccessDesc, name) :
                  LET v == collect.sent[w[1]][w[2]].value IN
                  /\ v \in {0, 1}
                  /\ (v = 1) = (collect.err[name] = "nil")

\* C2 witness: a Collect returned in which one Update returned ErrNoData,
\* one another error and one nil
C2_Witness ==
    /\ collect.phase = "returned"
    /\ collect.err["stub"] = "ErrNoData"
    /\ collect.err["gpu_process"] = "error"
    /\ collect.err["gpu_metrics"] = "nil"

\* C3: when a collector's Update has returned an error, every other
\* collector still takes its steps, Collect still returns once all are done,
\* and what every other collector has sent when Collect returns is its own
\* series followed by its own two meta-metrics, as if nothing had failed.
C3_FailureIsolation ==
    \A failed \in Collectors :
        (collect.pc[failed] # "start" /\ collect.err[failed] # "nil") =>
            /\ collect.phase = "collecting" =>
                  /\ \A name \in Collectors \ {failed} :
                        collect.pc[name] # "done" => CanStep(name)
                  /\ (\A name \in Collectors : collect.pc[name] = "done")
                        => ENABLED CollectReturn
            /\ collect.phase = "returned" =>
                  \A name \in Collectors \ {failed} :
                      collect.sent[name] =
                          collect.own[name]
                          \o <<DurationMetric(name),
                               SuccessMetric(name, IF collect.err[name] = "nil" THEN 1 ELSE 0)>>

\* C3 witness: a Collect returned in which the process collector failed and
\* the device telemetry collector sent series and succeeded
C3_Witness ==
    /\ collect.phase = "returned"
    /\ collect.err["gpu_process"] = "error"
    /\ collect.err["gpu_metrics"] = "nil"
    /\ Len(collect.own["gpu_metrics"]) = 2

\* C13: Collect runs one unit of work per registered collector, none of
\* which waits for another, and does not return before the Update of every
\* registered collector has returned and both of its meta-metrics were sent.
C13_ReturnsAfterAllCollectors ==
    /\ collect.phase = "collecting" =>
          /\ collect.wg = Cardinality({name \in Collectors : collect.pc[name] # "done"})
          /\ \A name \in Collectors : collect.pc[name] # "done" => CanStep(name)
    /\ collect.phase = "returned" =>
          \A name \in Collectors :
              /\ collect.pc[name] = "done"
              /\ MetaSent(DurationDesc, name) # {}
              /\ MetaSent(SuccessDesc, name) # {}

\* C13 witness: a Collect returned after all three collectors succeeded and
\* the process collector sent series
C13_Witness ==
    /\ collect.phase = "returned"
    /\ \A name \in Collectors : collect.pc[name] = "done" /\ collect.err[name] = "nil"
    /\ collect.own["gpu_process"] # <<>>

\* C10: when the driver reports process enumeration as not supported, the
\* process collector is reported with success = 0, no process series is sent
\* in that scrape, and Collect returns normally.
C10_NotSupportedReportsZero ==
    (/\ collect.phase = "returned"
     /\ collect.enum = [err |-> "unavailable", ret |-> "ERROR_NOT_SUPPORTED"]) =>
        /\ collect.own["gpu_process"] = <<>>
        /\ \A w \in MetaSent(SuccessDesc, "gpu_process") :
              collect.sent[w[1]][w[2]].value = 0

\* C21: when process enumeration fails with a fault that is not classified
\* as unavailability, the process collector's Update returns an error and
\* sends no process series, its success gauge is 0, and every other
\* collector sends its own series and its own two meta-metrics, with the
\* success value its own Update result gives.
C21_HardEnumerationError ==
    (collect.enum.err = "error" /\ collect.pc["gpu_process"] # "start") =>
        /\ collect.err["gpu_process"] = "error"
        /\ collect.own["gpu_process"] = <<>>
        /\ collect.phase = "returned" =>
              /\ collect.sent["gpu_process"] =
                    <<DurationMetric("gpu_process"), SuccessMetric("gpu_process", 0)>>
              /\ \A name \in Collectors \ {"gpu_process"} :
                    collect.sent[name] =
                        collect.own[name]
                        \o <<DurationMetric(name),
                             SuccessMetric(name, IF collect.err[name] = "nil" THEN 1 ELSE 0)>>

\* C21 witness: a Collect returned in which a device of the enumeration
\* failed hard, the device telemetry collector sent its series and succeeded
\* and the third collector succeeded
C21_Witness ==
    /\ collect.phase = "returned"
    /\ collect.enum = [err |-> "error", ret |-> "SUCCESS"]
    /\ collect.err["gpu_metrics"] = "nil" /\ collect.own["gpu_metrics"] # <<>>
    /\ collect.err["stub"] = "nil"

\* ---------------------------- SpecLive: Collect with Updates that may block
\* execute: c.Update(ch) is called and never returns
UpdateBlocks(name) ==
    /\ collect.phase = "collecting" /\ collect.pc[name] = "start"
    /\ collect' = [collect EXCEPT !.pc[name] = "blocked"]
    /\ UNCHANGED <<cpuSamples, systemSample, last, quietGap, race, others>>

NextLive ==
    \/ NextCollect
    \/ \E name \in Collectors : UpdateBlocks(name)

\* every goroutine that can run is run in the end, and a send on the metric
\* channel never blocks
SpecLive == Init /\ [][NextLive]_vars /\ WF_vars(NextLive)

Blocked(name) == collect.pc[name] = "blocked"

\* C25: Collect has no timeout of its own. A Collect in progress returns in
\* the end unless the Update of some collector never returns; it returns only
\* after every collector is done; and from the moment one Update blocks for
\* good, Collect is still in progress for ever.
C25_ReturnsIffAllUpdatesReturn ==
    /\ [](collect.phase = "collecting" =>
            <>(collect.phase = "returned" \/ \E name \in Collectors : Blocked(name)))
    /\ [](collect.phase = "returned" => \A name \in Collectors : collect.pc[name] = "done")
    /\ [](\A name \in Collectors :
            Blocked(name) => [](Blocked(name) /\ collect.phase = "collecting"))

\* C25 witness: one Update blocked, every other collector is done, and
\* Collect is still waiting
C25_Witness ==
    /\ collect.phase = "collecting"
    /\ Blocked("stub")
    /\ \A name \in Collectors \ {"stub"} : collect.pc[name] = "done"

\* ------------------- SpecOrder: the order in which one Collect's metrics arrive
\* execute with its sends in the wrong order
executeSends_successFirst(name, err) ==
    <<SuccessMetric(name, executeSuccess(err)), DurationMetric(name)>>

\* execute: the two sends that follow c.Update(ch), in program order
executeSends(name, err) ==
    <<DurationMetric(name), SuccessMetric(name, executeSuccess(err))>>

\* what is received on ch, tagged with the goroutine that sent it
Received(name, ms) == [i \in 1..Len(ms) |-> [from |-> name, metric |-> ms[i]]]

\* the answers the process collector gets while the order is observed: the
\* enumeration finds pid 1 and every later step succeeds
OrderProcessAnswers ==
    UNION {{in \in ProcessAnswers(e) : in.dcgmInit /\ in.watch} :
           e \in {c \in EnumCases : c.err = "nil" /\ c.pids = <<1>>}}

\* the answers the device telemetry collector gets meanwhile: dcgm fails to
\* start, or lists two devices of which the first can be read
OrderMetricsAnswers ==
    {in \in MetricsAnswers : ~in.init \/ (Len(in.gpus) = 2 /\ in.gpus[1].ok)}

\* Collect is called
OrderStart ==
    /\ collect.phase \in {"idle", "returned"}
    /\ collect' = [NoCollect EXCEPT !.phase = "collecting",
                                    !.pc = [c \in Collectors |-> "start"],
                                    !.wg = Cardinality(Collectors)]
    /\ channel' = <<>>
    /\ UNCHANGED <<cpuSamples, systemSample, last, quietGap, race, labels, metrics,
                   registry, asked, usage, aligned>>

\* execute: err := c.Update(ch) of the process collector, its sends included
OrderUpdateProcess ==
    /\ collect.phase = "collecting" /\ collect.pc["gpu_process"] = "start"
    /\ \E in \in OrderProcessAnswers :
         \E r \in {Update([cpuSamples |-> cpuSamples, systemSample |-> systemSample], in)} :
            /\ cpuSamples' = r.cpuSamples
            /\ systemSample' = r.systemSample
            /\ collect' = [collect EXCEPT !.pc["gpu_process"] = "updated",
                                          !.err["gpu_process"] = r.err,
                                          !.sent["gpu_process"] = r.sent,
                                          !.own["gpu_process"] = r.sent,
                                          !.enum = [err |-> in.enum.err, ret |-> in.enum.ret]]
            /\ channel' = channel \o Received("gpu_process", r.sent)
    /\ UNCHANGED <<last, quietGap, race, labels, metrics, registry, asked, usage, aligned>>

\* execute: err := c.Update(ch) of the device telemetry collector
OrderUpdateMetrics ==
    /\ collect.phase = "collecting" /\ collect.pc["gpu_metrics"] = "start"
    /\ \E in \in OrderMetricsAnswers :
         \E r \in {gpuMetricsUpdate(in)} :
            /\ collect' = [collect EXCEPT !.pc["gpu_metrics"] = "updated",
                                          !.err["gpu_metrics"] = r.err,
                                          !.sent["gpu_metrics"] = r.sent,
                                          !.own["gpu_metrics"] = r.sent]
            /\ channel' = channel \o Received("gpu_metrics", r.sent)
    /\ UNCHANGED <<cpuSamples, systemSample, last, quietGap, race, labels, metrics,
                   registry, asked, usage, aligned>>

\* execute: err := c.Update(ch) of any other Collector
OrderUpdateStub ==
    /\ collect.phase = "collecting" /\ collect.pc["stub"] = "start"
    /\ \E err \in UpdateErrors :
         collect' = [collect EXCEPT !.pc["stub"] = "updated", !.err["stub"] = err]
    /\ UNCHANGED <<cpuSamples, systemSample, last, quietGap, race, others>>

\* execute: the next of its two sends
OrderSend(name) ==
    /\ collect.phase = "collecting" /\ collect.pc[name] \in {"updated", "duration"}
    /\ \E m \in {executeSends(name, collect.err[name])[IF collect.pc[name] = "updated" THEN 1 ELSE 2]} :
          /\ collect' = [collect EXCEPT
                           !.pc[name] = IF @ = "updated" THEN "duration" ELSE "executed",
                           !.sent[name] = Append(@, m)]
          /\ channel' = Append(channel, [from |-> name, metric |-> m])
    /\ UNCHANGED <<cpuSamples, systemSample, last, quietGap, race, labels, metrics,
                   registry, asked, usage, aligned>>

NextOrder ==
    \/ OrderStart
    \/ OrderUpdateProcess
    \/ OrderUpdateMetrics
    \/ OrderUpdateStub
    \/ \E name \in Collectors : OrderSend(name)
    \/ \E name \in Collectors : WgDone(name)
    \/ CollectReturn

SpecOrder == Init /\ [][NextOrder]_vars

\* the places of channel that hold what goroutine name sent
SentBy(name) == {i \in 1..Len(channel) : channel[i].from = name}
IsMeta(m) == m.desc \in {DurationDesc, SuccessDesc}
DurationAt(name) == {i \in SentBy(name) : channel[i].metric.desc = DurationDesc}
SuccessAt(name) == {i \in SentBy(name) : channel[i].metric.desc = SuccessDesc}
SeriesAt(name) == {i \in SentBy(name) : ~IsMeta(channel[i].metric)}

\* C28: within one Collect, the duration and success gauges of a collector
\* are on the channel only once its Update has returned, every series that
\* collector sent comes before both, and the duration gauge comes before the
\* success gauge; a collector's next send never waits for another collector.
C28_EmissionOrder ==
    \A name \in Collectors :
        /\ \A i \in DurationAt(name) \cup SuccessAt(name) :
              /\ channel[i].metric.collector = name
              /\ collect.pc[name] \notin {"idle", "start"}
              /\ Cardinality(SeriesAt(name)) = Len(collect.own[name])
              /\ \A j \in SeriesAt(name) : j < i
        /\ \A i \in SuccessAt(name) :
              /\ DurationAt(name) # {}
              /\ \A j \in DurationAt(name) : j < i
        /\ collect.pc[name] \in {"executed", "done"} =>
              DurationAt(name) # {} /\ SuccessAt(name) # {}
        /\ (collect.phase = "collecting" /\ collect.pc[name] \in {"updated", "duration"})
              => ENABLED OrderSend(name)

\* C28 witness: a Collect returned in which the process collector sent a
\* series and the device telemetry collector's series arrived between the
\* process collector's duration and success gauges
C28_Witness ==
    /\ collect.phase = "returned"
    /\ SeriesAt("gpu_process") # {}
    /\ \E i \in DurationAt("gpu_process") : \E k \in SuccessAt("gpu_process") :
          \E j \in SeriesAt("gpu_metrics") : i < j /\ j < k

\* ------------------------------- SpecRace: two Updates on the same instance
\* Update holds no lock: each read and each write of cpuSamples and
\* systemSample is a step of its own, and the steps of two scrapes interleave.
\* An enumeration that fails or is unavailable and a failing
\* readTotalCPUSeconds return before any access and leave every variable as
\* it is.
Other(t) == CHOOSE u \in Scrapes : u # t

\* the sorted, non-repeating pid slices nvmlProcessPIDs returns
PidSlices == {SortedSeq(S) : S \in SUBSET Pids}

\* the next statement of t is in the map: the lookup and the store of
\* processCPUPercent, the loops of pruneCPUSamples and resetCPUSamples
MapAccess(t) ==
    LET th == race.th[t] IN
    \/ th.pc \in {"sampleRead", "sampleWrite", "resetMap"}
    \/ th.pc = "loop" /\ th.rest = <<>>

\* ... and writes it: the store, or a loop that has a key to delete
MapWrite(t) ==
    LET th == race.th[t] IN
    \/ th.pc = "sampleWrite"
    \/ th.pc = "resetMap" /\ DOMAIN cpuSamples # {}
    \/ th.pc = "loop" /\ th.rest = <<>> /\ DOMAIN cpuSamples \ Range(th.active) # {}

\* nvmlProcessPIDs and readTotalCPUSeconds returned without error
RaceEnumerate(t) ==
    /\ ~race.fatal /\ race.th[t].pc = "idle"
    /\ \E pids \in PidSlices : \E total \in Seconds :
         race' = [race EXCEPT !.th[t] =
                    IF Len(pids) = 0
                    THEN [NoScrape EXCEPT !.pc = "resetMap"]
                    ELSE [NoScrape EXCEPT !.pc = "sysRead", !.active = pids,
                                          !.total = total]]
    /\ UNCHANGED <<cpuSamples, systemSample, last, quietGap, collect, others>>

\* resetCPUSamples: the loop deleting every key
RaceResetMap(t) ==
    /\ ~race.fatal /\ race.th[t].pc = "resetMap"
    /\ cpuSamples' = resetCPUSamples(cpuSamples).cpuSamples
    /\ race' = [race EXCEPT !.th[t].pc = "resetSys"]
    /\ UNCHANGED <<systemSample, last, quietGap, collect, others>>

\* resetCPUSamples: c.systemSample = systemCPUSample{}, and Update returns
RaceResetSys(t) ==
    /\ ~race.fatal /\ race.th[t].pc = "resetSys"
    /\ systemSample' = resetCPUSamples(cpuSamples).systemSample
    /\ race' = [race EXCEPT !.th[t] = NoScrape]
    /\ UNCHANGED <<cpuSamples, last, quietGap, collect, others>>

\* updateSystemSample: the reads of c.systemSample
RaceSysRead(t) ==
    /\ ~race.fatal /\ race.th[t].pc = "sysRead"
    /\ race' = [race EXCEPT !.th[t].pc = "sysWrite", !.th[t].prev = systemSample]
    /\ UNCHANGED <<cpuSamples, systemSample, last, quietGap, collect, others>>

\* updateSystemSample: the write of c.systemSample from what was read, then
\* dcgm.Init and WatchPidFields, either of which may make Update return
RaceSysWrite(t) ==
    /\ ~race.fatal /\ race.th[t].pc = "sysWrite"
    /\ \E u \in {updateSystemSample(race.th[t].prev, race.th[t].total)} :
         /\ systemSample' = u.sys
         /\ \E dcgmUp \in BOOLEAN :
              race' = [race EXCEPT !.th[t] =
                         IF dcgmUp
                         THEN [@ EXCEPT !.pc = "loop", !.rest = race.th[t].active,
                                        !.total = 0, !.prev = NoSystemSample,
                                        !.systemDelta = u.delta,
                                        !.hasSystemDelta = u.ok]
                         ELSE NoScrape]
    /\ UNCHANGED <<cpuSamples, last, quietGap, collect, others>>

\* the loop body up to the call of processCPUPercent; a pid whose lookups
\* fail is skipped
RaceLookup(t) ==
    /\ ~race.fatal /\ race.th[t].pc = "loop" /\ race.th[t].rest # <<>>
    /\ \/ race' = [race EXCEPT !.th[t].rest = Tail(@)]
       \/ \E procSeconds \in Seconds :
            race' = [race EXCEPT !.th[t].pc = "sampleRead",
                                 !.th[t].procSeconds = procSeconds]
    /\ UNCHANGED <<cpuSamples, systemSample, last, quietGap, collect, others>>

\* processCPUPercent: prev, ok := c.cpuSamples[pid]
RaceSampleRead(t) ==
    /\ ~race.fatal /\ race.th[t].pc = "sampleRead"
    /\ LET pid == Head(race.th[t].rest) IN
       race' = [race EXCEPT
                  !.th[t].pc = "sampleWrite",
                  !.th[t].seen = IF pid \in DOMAIN cpuSamples
                                 THEN [ok |-> TRUE, cpuSeconds |-> cpuSamples[pid]]
                                 ELSE [ok |-> FALSE, cpuSeconds |-> 0]]
    /\ UNCHANGED <<cpuSamples, systemSample, last, quietGap, collect, others>>

\* processCPUPercent: c.cpuSamples[pid] = cpuSample{...}
RaceSampleWrite(t) ==
    /\ ~race.fatal /\ race.th[t].pc = "sampleWrite"
    /\ LET th == race.th[t]
           pid == Head(th.rest)
           seen == IF th.seen.ok THEN MapPut(EmptyMap, pid, th.seen.cpuSeconds)
                   ELSE EmptyMap
           r == processCPUPercent(seen, pid, th.procSeconds, th.systemDelta,
                                  th.hasSystemDelta, NumCPU)
       IN  /\ cpuSamples' = MapPut(cpuSamples, pid, r.samples[pid])
           /\ race' = [race EXCEPT !.th[t].pc = "loop", !.th[t].rest = Tail(@),
                                    !.th[t].procSeconds = 0,
                                    !.th[t].seen = NoScrape.seen]
    /\ UNCHANGED <<systemSample, last, quietGap, collect, others>>

\* pruneCPUSamples(pids), and Update returns
RacePrune(t) ==
    /\ ~race.fatal /\ race.th[t].pc = "loop" /\ race.th[t].rest = <<>>
    /\ cpuSamples' = pruneCPUSamples(cpuSamples, race.th[t].active)
    /\ race' = [race EXCEPT !.th[t] = NoScrape]
    /\ UNCHANGED <<systemSample, last, quietGap, collect, others>>

\* two goroutines are in the map at once, one of them writing: the runtime
\* may stop the process with "concurrent map read and map write" or
\* "concurrent map writes" (its goroutines end with it), or may let both
\* accesses through (the steps above)
RaceFault ==
    /\ ~race.fatal
    /\ \E t \in Scrapes : MapWrite(t) /\ MapAccess(Other(t))
    /\ race' = [NoRace EXCEPT !.fatal = TRUE]
    /\ UNCHANGED <<cpuSamples, systemSample, last, quietGap, collect, others>>

NextRace ==
    \/ \E t \in Scrapes : RaceEnumerate(t)
    \/ \E t \in Scrapes : RaceResetMap(t)
    \/ \E t \in Scrapes : RaceResetSys(t)
    \/ \E t \in Scrapes : RaceSysRead(t)
    \/ \E t \in Scrapes : RaceSysWrite(t)
    \/ \E t \in Scrapes : RaceLookup(t)
    \/ \E t \in Scrapes : RaceSampleRead(t)
    \/ \E t \in Scrapes : RaceSampleWrite(t)
    \/ \E t \in Scrapes : RacePrune(t)
    \/ RaceFault

SpecRace == Init /\ [][NextRace]_vars

\* C1: two scrapes running Update on the same instance never corrupt its
\* state: the process is never stopped by the runtime, the two are never in
\* the sample map at once with one of them writing, and whenever one is about
\* to write the system sample or a pid's sample, what it read to compute the
\* write is still what is stored (no update of the other is lost).
C1_CyclesAtomic ==
    /\ ~race.fatal
    /\ \A t \in Scrapes :
          /\ ~(MapWrite(t) /\ MapAccess(Other(t)))
          /\ race.th[t].pc = "sysWrite" => race.th[t].prev = systemSample
          /\ race.th[t].pc = "sampleWrite" =>
                LET pid == Head(race.th[t].rest) IN
                IF race.th[t].seen.ok
                THEN pid \in DOMAIN cpuSamples
                     /\ cpuSamples[pid] = race.th[t].seen.cpuSeconds
                ELSE pid \notin DOMAIN cpuSamples

\* ------------------------------------------------- SpecLabels: label values
\* collectProcessInfo builds the command label of a process
BuildCommandLabel ==
    /\ \E command \in Commands :
         labels' = [NoLabels EXCEPT !.kind = "command", !.command = command,
                                    !.label = commandLabel(command)]
    /\ UNCHANGED <<coreVars, metrics, registry, asked, usage, aligned, channel>>

\* Update resolves the host label
ResolveHostName ==
    /\ \E env \in NodeNames : \E host \in HostnameResults :
         labels' = [NoLabels EXCEPT !.kind = "host", !.env = env, !.hostname = host,
                                    !.host = hostNameOrDefault(env, host)]
    /\ UNCHANGED <<coreVars, metrics, registry, asked, usage, aligned, channel>>

NextLabels == BuildCommandLabel \/ ResolveHostName

SpecLabels == Init /\ [][NextLabels]_vars

\* C11: the command label is the command line when it has at most 200 code
\* points, whatever its length in bytes, and its first 200 code points when it
\* has more; the label never ends inside a multi-byte character.
C11_TruncatedByCodePoints ==
    labels.kind = "command" =>
        LET chars == labels.command.chars IN
        /\ Len(chars) <= 200 => labels.label = labels.command
        /\ Len(chars) > 200 => labels.label = GoString(SubSeq(chars, 1, 200))
        /\ labels.label.tail = 0

\* C12: the host label is NODE_NAME when it is set and non-empty, else the OS
\* hostname when it can be read, else "unknown".
C12_HostResolutionOrder ==
    labels.kind = "host" =>
        labels.host = IF labels.env # "" THEN labels.env
                      ELSE IF ~labels.hostname.err THEN labels.hostname.name
                      ELSE "unknown"

\* ------------------------------------------ SpecMeta: the process labels
\* collectProcessInfo builds the labels of a process
BuildProcessLabels ==
    /\ \E in \in ProcessReads :
         labels' = [NoLabels EXCEPT !.kind = "meta", !.proc = in,
                                    !.meta = collectProcessMetadata(in, in.fallbackName)]
    /\ UNCHANGED <<coreVars, metrics, registry, asked, usage, aligned, channel>>

NextMeta == BuildProcessLabels

SpecMeta == Init /\ [][NextMeta]_vars

\* the value of a string of decimal digits
RECURSIVE Decimal(_)
Decimal(chars) ==
    IF chars = <<>> THEN 0
    ELSE 10 * Decimal(SubSeq(chars, 1, Len(chars) - 1)) + (chars[Len(chars)] - 48)

\* a label that is not empty, and one without white space at either end
NotEmpty(label) == goLen(label) > 0
NoLeadingSpace(label) == label.chars # <<>> => ~IsSpace(label.chars[1])
NoTrailingSpace(label) ==
    (label.chars # <<>> /\ label.tail = 0) => ~IsSpace(label.chars[Len(label.chars)])

\* what the fallback order gives for the labels built last: the name, and
\* the text the command label is made of
ExpectedName ==
    LET in == labels.proc
        osName == IF in.name.err THEN EmptyString ELSE TrimSpace(in.name.value)
        gpuName == TrimSpace(in.fallbackName)
    IN  IF osName # EmptyString THEN osName
        ELSE IF gpuName # EmptyString THEN gpuName
        ELSE unknownProcessLabel
ExpectedCommand ==
    LET in == labels.proc
        line == IF in.cmdline.err THEN EmptyString ELSE TrimSpace(in.cmdline.value)
        argv == IF in.args.err \/ in.args.value = <<>> THEN EmptyString
                ELSE TrimSpace(GoString(Join(in.args.value)))
    IN  IF line # EmptyString THEN line
        ELSE IF argv # EmptyString THEN argv
        ELSE ExpectedName

\* the labels built last follow the fallback order, and none is empty
FallbackOrder ==
    LET in == labels.proc
        meta == labels.meta
    IN  /\ meta.name = ExpectedName
        /\ IF goLen(ExpectedCommand) <= maxCommandLabelLength
           THEN meta.command = ExpectedCommand
           ELSE /\ Len(meta.command.chars) < Len(ExpectedCommand.chars)
                /\ meta.command.chars
                     = SubSeq(ExpectedCommand.chars, 1, Len(meta.command.chars))
        /\ IF ~in.uids.err /\ Len(in.uids.value) > 0
           THEN /\ \A i \in 1..Len(meta.uid.chars) : meta.uid.chars[i] \in 48..57
                /\ Decimal(meta.uid.chars) = in.uids.value[1]
           ELSE meta.uid = unknownProcessLabel
        /\ NotEmpty(meta.name) /\ NotEmpty(meta.uid) /\ NotEmpty(meta.command)

\* C24 as stated: the labels follow the fallback order (name: OS name, GPU
\* name, "unknown"; command: command line or joined argv, then as the name;
\* user: first uid or "unknown"), each taken trimmed, and no label is empty
\* or has white space at either end.
C24_LabelsTrimmed ==
    labels.kind = "meta" =>
        /\ FallbackOrder
        /\ \A label \in {labels.meta.name, labels.meta.uid, labels.meta.command} :
              NoLeadingSpace(label) /\ NoTrailingSpace(label)

\* C24: the labels follow the fallback order, each taken trimmed, and no
\* label is empty; the name and the user label have no white space at either
\* end, the command label has none in front, and none at its end unless it
\* was cut at the length limit.
C24_LabelsTrimmedBeforeCut ==
    labels.kind = "meta" =>
        /\ FallbackOrder
        /\ \A label \in {labels.meta.name, labels.meta.uid} :
              NoLeadingSpace(label) /\ NoTrailingSpace(label)
        /\ NoLeadingSpace(labels.meta.command)
        /\ labels.meta.command = ExpectedCommand => NoTrailingSpace(labels.meta.command)

\* C24 witness: the OS name was blank and the GPU name padded, the name
\* label is the GPU name trimmed, the credentials could not be read, and the
\* command label was cut and ends in white space
C24_Witness ==
    /\ labels.kind = "meta"
    /\ ~labels.proc.name.err /\ TrimSpace(labels.proc.name.value) = EmptyString
    /\ labels.proc.fallbackName # TrimSpace(labels.proc.fallbackName)
    /\ labels.meta.name = TrimSpace(labels.proc.fallbackName)
    /\ labels.proc.uids.err /\ labels.meta.uid = unknownProcessLabel
    /\ labels.meta.command # ExpectedCommand
    /\ ~NoTrailingSpace(labels.meta.command)

\* ------------------------------------- SpecMetrics: device telemetry scrapes
RECURSIVE heldAfter(_, _)
heldAfter(held, queries) ==
    IF queries = <<>> THEN held
    ELSE heldAfter(handlesAfter(held, Head(queries).gpu, Head(queries).calls), Tail(queries))

\* one Update of the device telemetry collector
ScrapeMetrics ==
    /\ \E in \in TelemetryAnswers :
         \E r \in {telemetryUpdate(in)} :
            metrics' = [outstanding |-> heldAfter(metrics.outstanding, r.queries),
                        in |-> in, out |-> r]
    /\ UNCHANGED <<coreVars, labels, registry, asked, usage, aligned, channel>>

NextMetrics == ScrapeMetrics

SpecMetrics == Init /\ [][NextMetrics]_vars

\* the queries of the latest scrape and the series it sent
Queries == Range(metrics.out.queries)
TelemetrySent == Range(metrics.out.sent)

\* in the calls of one query, call i made a handle and no later call destroys it
Undestroyed(calls, i) ==
    /\ calls[i].ok
    /\ calls[i].op \in {"FieldGroupCreate", "WatchFields"}
    /\ ~\E j \in (i + 1)..Len(calls) :
           /\ calls[j].op \in {"FieldGroupDestroy", "DestroyGroup"}
           /\ HandleKind(calls[j].op) = HandleKind(calls[i].op)

\* the handles whose destroy the driver refused in the scrape recorded in m
Refused(m) ==
    UNION {{Handle(HandleKind(q.calls[i].op), q.gpu) :
               i \in {j \in 1..Len(q.calls) :
                        /\ q.calls[j].op \in {"FieldGroupDestroy", "DestroyGroup"}
                        /\ ~q.calls[j].ok}} :
           q \in Range(m.out.queries)}

\* C14 as stated: after any sequence of scrapes the driver holds no field
\* group and no watch group made by a field query.
C14_NoHandleOutstanding == metrics.outstanding = {}

\* C14: in every field query and on every exit path, each field group and
\* watch group that was created is passed to its destroy call before the query
\* returns; a scrape leaves a handle with the driver
\* only when the driver refused that destroy call.
C14_DestroyedOnEveryExit ==
    [][/\ \A q \in Range(metrics'.out.queries) :
             \A i \in 1..Len(q.calls) : ~Undestroyed(q.calls, i)
       /\ metrics'.outstanding \ metrics.outstanding \subseteq Refused(metrics')]_vars

\* C14 witness: a query whose read failed after both handles were made, and
\* the driver holds no handle afterwards
C14_Witness ==
    /\ metrics.outstanding = {}
    /\ \E q \in Queries :
          /\ q.err = "error"
          /\ Call("GetLatestValuesForFields", FALSE) \in Range(q.calls)
          /\ Call("DestroyGroup", TRUE) \in Range(q.calls)
          /\ Call("FieldGroupDestroy", TRUE) \in Range(q.calls)

\* C15: for every device and every field of gpuMetricFields, a series of that
\* field is sent for the device exactly when the driver returned the field
\* with status OK in the device's query, and then once and with the value
\* returned; a field of another status sends nothing and leaves the other
\* fields of the device as they are.
C15_SeriesIffStatusOK ==
    \A gpuID \in GPUs : \A f \in Range(gpuMetricFields) :
        LET series == {i \in 1..Len(metrics.out.sent) :
                          /\ metrics.out.sent[i].gpu = gpuID
                          /\ metrics.out.sent[i].field = f}
            okValues == {v \in UNION {Range(q.values) : q \in {r \in Queries : r.gpu = gpuID}} :
                            v.FieldID = f /\ v.Status = "OK"}
        IN  /\ (series # {}) = (okValues # {})
            /\ Cardinality(series) <= 1
            /\ \A i \in series : \E v \in okValues :
                  metrics.out.sent[i].value =
                      IF f \in {"FB_FREE", "FB_USED", "FB_TOTAL"}
                      THEN v.Value * 1048576 ELSE v.Value

\* C15 witness: the driver marked the temperature of device 0 invalid and the
\* five other fields of that device were sent
C15_Witness ==
    /\ \E q \in Queries :
          /\ q.gpu = 0
          /\ \E i \in 1..Len(q.values) :
                q.values[i].FieldID = "GPU_TEMP" /\ q.values[i].Status # "OK"
    /\ ~\E s \in TelemetrySent : s.gpu = 0 /\ s.field = "GPU_TEMP"
    /\ Cardinality({s \in TelemetrySent : s.gpu = 0}) = 5

\* the device answered its device info and every call of its field query
Readable(g) == g.info /\ g.query.create /\ g.query.watch /\ g.query.read

\* C23: when dcgm lists the devices and the device info or the field query
\* of a device fails, no series is sent for that device, every other device
\* still gets one series per field the driver returned with status OK, and
\* Update returns nil.
C23_DeviceFailureSkipsOnlyThatDevice ==
    (metrics.in.init /\ metrics.in.list) =>
        /\ metrics.out.err = "nil"
        /\ \A k \in 1..Len(metrics.in.gpus) :
              LET g == metrics.in.gpus[k]
                  series == {i \in 1..Len(metrics.out.sent) : metrics.out.sent[i].gpu = g.id}
                  okFields == {v.FieldID : v \in {w \in Range(g.query.values) : w.Status = "OK"}}
              IN  IF Readable(g)
                  THEN /\ {metrics.out.sent[i].field : i \in series} = okFields
                       /\ Cardinality(series) = Cardinality(okFields)
                  ELSE series = {}

\* C23 witness: of two devices the first failed (its device info, or its
\* field read) and the second was sent with all its fields
C23_Witness ==
    /\ Len(metrics.in.gpus) = 2
    /\ ~Readable(metrics.in.gpus[1])
    /\ Readable(metrics.in.gpus[2])
    /\ metrics.out.err = "nil"
    /\ ~\E s \in TelemetrySent : s.gpu = metrics.in.gpus[1].id
    /\ Cardinality({s \in TelemetrySent : s.gpu = metrics.in.gpus[2].id})
          = Len(gpuMetricFields)

\* ------------------------------ SpecConstruct: constructing the orchestrator
\* NewNvidiaGPUCollector, under initiatedCollectorsMtx from start to end
Construct ==
    /\ registry.constructions < MaxConstructions
    /\ \E keys \in KeyOrders : \E fails \in SUBSET Collectors :
         \E r \in {constructLoop(EmptyMap, registry.initiatedCollectors, registry.calls,
                                 keys, fails)} :
            registry' = [initiatedCollectors |-> r.initiated,
                         calls |-> r.calls,
                         constructions |-> registry.constructions + 1,
                         last |-> [err |-> r.err, Collectors |-> r.collectors,
                                   fails |-> fails],
                         orchestrators |->
                             IF r.err.nil
                             THEN registry.orchestrators \cup {r.collectors}
                             ELSE registry.orchestrators]
    /\ UNCHANGED <<coreVars, labels, metrics, asked, usage, aligned, channel>>

NextConstruct == Construct

SpecConstruct == Init /\ [][NextConstruct]_vars

\* C16: a construction gives, for every registered name, the collector
\* already instantiated when there is one and otherwise what one invocation
\* of the name's factory returned; all orchestrators constructed hold the
\* same collector per name; when a factory fails the construction returns
\* that factory's error and no orchestrator.
C16_CollectorsReused ==
    [][LET before == registry.initiatedCollectors
           made == registry'.last.Collectors
           err == registry'.last.err
       IN  /\ err.nil =>
                 /\ DOMAIN made = Collectors
                 /\ \A name \in Collectors :
                       IF name \in DOMAIN before
                       THEN /\ made[name] = before[name]
                            /\ registry'.calls[name] = registry.calls[name]
                       ELSE /\ made[name] = Instance(name, registry.calls[name] + 1)
                            /\ registry'.calls[name] = registry.calls[name] + 1
           /\ ~err.nil =>
                 /\ made = EmptyMap
                 /\ err.factory \in registry'.last.fails \ DOMAIN before
                 /\ registry'.orchestrators = registry.orchestrators
           /\ err.nil = (registry'.last.fails \subseteq DOMAIN before)
           /\ \A o1, o2 \in registry'.orchestrators : o1 = o2]_vars

\* C16 witness: a construction failed, later ones succeeded, and every
\* factory was invoked successfully once
C16_Witness ==
    /\ registry.constructions = 3
    /\ registry.last.err.nil
    /\ \E name \in Collectors : registry.calls[name] = 2
    /\ \A name \in Collectors :
          registry.last.Collectors[name] = registry.initiatedCollectors[name]


\* -------------------------------- SpecUsage: the GPU-memory-only collector
\* one scrape's Update of the collector that reports GPU memory only
ScrapeUsages ==
    /\ \E drv \in UsageDriverResponses : \E hostFails \in {{}} \cup {{pid} : pid \in Pids} :
       \E r \in {UpdateUsages(drv, hostFails)} :
          usage' = [err |-> r.err, path |-> r.path, usages |-> r.usages,
                    sent |-> r.sent, hostFails |-> hostFails]
    /\ UNCHANGED <<coreVars, labels, metrics, registry, asked, aligned, channel>>

NextUsage == ScrapeUsages

SpecUsage == Init /\ [][NextUsage]_vars

\* C19: the usages enumerated in one cycle hold at most one record per
\* (device, pid), also when a process is in the compute and in the graphics
\* list of one device; one series is emitted per enumerated (device, pid),
\* so no two series of one scrape carry the same (device, pid) labels.
C19_OnePerDevicePid ==
    /\ \A i, j \in 1..Len(usage.usages) :
          (usage.usages[i].gpu = usage.usages[j].gpu
             /\ usage.usages[i].pid = usage.usages[j].pid) => i = j
    /\ \A i, j \in 1..Len(usage.sent) :
          (usage.sent[i].gpu = usage.sent[j].gpu
             /\ usage.sent[i].pid = usage.sent[j].pid) => i = j
    /\ usage.hostFails = {} => Len(usage.sent) = Len(usage.usages)

====
